---- MODULE Spec2Model ----
(***************************************************************************)
(* State-machine model of the nofx-go execution engine and protection      *)
(* guard: the per-symbol distributed lock, the tumbling-window dedupe,     *)
(* order placement and confirmation, and the SL/TP guard with its cleanup. *)
(*                                                                         *)
(* Time is a discrete clock in seconds.  Coordination-store calls are      *)
(* instantaneous; exchange HTTP calls take 0..MaxExchLatency seconds; the  *)
(* confirmation loop polls every ConfirmTickSec seconds.  A store key with *)
(* expiry e is certainly present while now < e, certainly gone when        *)
(* now > e, and may be either during second e (sub-second resolution).     *)
(*                                                                         *)
(* Prices are integers in units of 1e-9, so that the %.8f formatting of    *)
(* the dedupe key is a real rounding.  Quantities are integers.            *)
(*                                                                         *)
(* Calls to the exchange can fail wherever the code handles the error.     *)
(* Of the store calls, the EXISTS of the dedupe check, the SCAN and the    *)
(* DEL of the cleanup can fail; a failed lock acquisition is not told      *)
(* apart from contention, as in the code.  Once the context of the engine  *)
(* calls is cancelled (SpecCancel only) every store command they send is   *)
(* refused.                                                                *)
(*                                                                         *)
(* The decision side is modelled as well: the trade queue between the      *)
(* decision workers and the execution loop, one symbol scan, the streaming *)
(* scan with its bounded task pool, and the scanner loop that decides      *)
(* whether the next scan is a full one.  The pushes onto the queue succeed.*)
(*                                                                         *)
(* Further parts: the HTTP client of the public endpoints (time in ticks   *)
(* of 100 ms, the clock jumping to the next deadline), the supervisor in   *)
(* main (time in steps of 10 s), the exchange's order methods, and the     *)
(* indicator CalculateEMA with float64 values as exact fractions.          *)
(*                                                                         *)
(* The specifications share the variables; each starts the parts it does   *)
(* not exercise in their idle state and never moves them:                  *)
(*   Spec           two engine processes, open and close signals, locks    *)
(*   SpecDedupe     two engine processes, near-identical open signals      *)
(*   SpecGuard      guard passes over given positions and Protection       *)
(*   SpecProtect    one engine call interleaved with guard passes          *)
(*   SpecReconcile  one guard pass over positions of every size and ratio  *)
(*   SpecQueue      decision workers push, the execution loop pops         *)
(*   SpecScan       one ScanSymbol call for every fetch outcome            *)
(*   SpecStream     the streaming scan, its tasks, consumer and cancel     *)
(*   SpecStreamFair SpecStream with every goroutine scheduled fairly       *)
(*   SpecCycle      the scanner loop over successive cycles                *)
(*   SpecLists      the four bounded lists and the calls that push        *)
(*   SpecClient     the exchange HTTP client: backoff window and limiter   *)
(*   SpecLimiter    the token bucket alone, for several rates and sizes    *)
(*   SpecSup        main, its three tasks, a shutdown signal, panics       *)
(*   SpecSupFair    SpecSup with time passing and the tasks scheduled      *)
(*   SpecExchange   the order methods with DRY_RUN on and off              *)
(*   SpecIndicators CalculateEMA on small price series                     *)
(*   SpecRSI        CalculateRSI on small price series                     *)
(*   SpecDecision   ProcessSignal: the advisor's attempts, the rule mode   *)
(*   SpecCancel     Spec on BTCUSDT with the context cancelled at any time *)
(*   SpecAuditText  saveAudit on event texts, byte by byte                 *)
(*   SpecPool       UpdateVolatilityPool against GetSymbolPool readers     *)
(*   SpecStopLoss   one open signal with a stop loss, and guard passes     *)
(*   SpecStopLossFair  SpecStopLoss with guard and engine scheduled fairly *)
(***************************************************************************)
EXTENDS Integers, Sequences, FiniteSets, TLC

\* ------------------------------------------------------------------ bounds
MaxTime == 31
MaxDedupeTime == 11
MaxCalls == 2
MaxExchLatency == 1
QtyScale == 40   \* quantity units bought by one unit of notional at price 1

\* ------------------------------------------------------ program constants
LockTTLSec == 30
ConfirmTimeoutSec == 30
ConfirmTickSec == 2
GuardLockTTLSec == 60
OrderDedupeWindow == 5
StratDefaultNotionalUSDT == 20

Procs == {"p1", "p2"}
Symbols == {"BTCUSDT", "ETHUSDT"}
PosSides == {"LONG", "SHORT"}

\* strings.ToUpper / strings.ToLower on the strings the engine handles
ToUpper(s) ==
    CASE s = "long" -> "LONG"
      [] s = "short" -> "SHORT"
      [] OTHER -> s

ToLower(s) ==
    CASE s = "LONG" -> "long"
      [] s = "SHORT" -> "short"
      [] OTHER -> s

\* ----------------------------------------------------------------- inputs
Sig(sym, act, side, entry, sl, tp, qty) ==
    [symbol |-> sym, action |-> act, side |-> side, entry |-> entry,
     sl |-> sl, tp |-> tp, quantity |-> qty]

NoSig == Sig("", "", "", 0, 0, 0, 0)

\* signals of the lock scenarios: two symbols, an open and a close
LockSignals ==
    { Sig("BTCUSDT", "open_long", "long", 20, 10, 40, 0),
      Sig("ETHUSDT", "open_long", "long", 30, 10, 40, 0),
      Sig("BTCUSDT", "close_long", "long", 0, 0, 0, 0) }

\* signals of the dedupe scenarios: entry 20 and 24 are equal to 8 decimals,
\* 30 is not; the last differs from the first in action and side only
DedupeSignals ==
    { Sig("BTCUSDT", "open_long", "long", 20, 10, 40, 0),
      Sig("BTCUSDT", "open_long", "long", 24, 0, 0, 2),
      Sig("BTCUSDT", "open_long", "long", 30, 10, 0, 0),
      Sig("BTCUSDT", "open_short", "short", 20, 40, 0, 0) }

VARIABLES
    now,          \* wall clock, seconds
    locks,        \* store: lock:{key} -> [token, exp]
    dedupe,       \* store: set of [key, exp] dedupe markers
    protection,   \* store: protection:{symbol}:{SIDE} -> record
    audit,        \* store list order_audit (head first)
    tradeHistory, \* store list trade_history (head first)
    orders,       \* exchange: orders that are open or still being confirmed
    positions,    \* exchange: <<symbol, SIDE>> -> size
    pc,           \* per process: position inside its current engine call
    cur,          \* per process: locals of its current engine call
    last,         \* per process: what its latest engine call returned
    checks,       \* history: dedupe checks of the last OrderDedupeWindow seconds
    nextOrder,    \* exchange: next order id
    calls,        \* number of engine calls started (call ids, lock tokens)
    gpc,          \* guard: position inside its current pass
    gl,           \* guard: locals of its current pass
    passLog,      \* history: one record per finished guard pass
    opened,       \* history: positions opened by the fill of an engine order
    savedFor      \* history: positions the engine saved a Protection for

guardVars == <<gpc, gl, passLog>>

coreVars == <<now, locks, dedupe, protection, audit, tradeHistory, orders,
              positions, pc, cur, last, checks, nextOrder, calls, gpc, gl,
              passLog, opened, savedFor>>

\* the signal queue between the decision router and the execution loop
VARIABLES
    tradeQueue,   \* store list trade_queue (head first)
    maxQueueSize, \* configured max_trade_queue_size
    pushed,       \* number of signals pushed so far (signal ids)
    popped,       \* history: what the execution loop popped, in order
    signalHistory,\* store list signal_history (head first)
    wallNano,     \* the wall clock read by time.Now().UnixNano()
    cycleSyms,    \* symbols already decided in the current scan cycle
    emitted       \* history: the signals in the order of their emission

queueVars == <<tradeQueue, maxQueueSize, pushed, popped, signalHistory,
               wallNano, cycleSyms, emitted>>

\* one ScanSymbol call
VARIABLES
    scanIn,       \* the symbol and what each fetch of the call yields
    scanOut       \* what the call returned

scanVars == <<scanIn, scanOut>>

\* one ScanMarketStream call and the consumer of its channel
VARIABLES
    streamCfg,    \* size of the symbol pool and scan_concurrency of the call
    ctxDone,      \* the context of the call has been cancelled
    spawner,      \* the goroutine that starts the tasks and closes the channel
    task,         \* per symbol of the pool: position of its goroutine
    resultChan,   \* the result channel: buffered items, closed or not
    consumer,     \* the loop ranging over the channel
    panicked      \* a goroutine panicked: the process is gone

streamVars == <<streamCfg, ctxDone, spawner, task, resultChan, consumer,
                panicked>>

\* the scanner loop (runScanner)
VARIABLES
    cycleCfg,      \* ai_force_full_pool_when_no_action and ai_batch_size
    scannerPc,     \* position of the loop
    forceFullNext, \* the loop's forceFullNext
    cyc,           \* locals of the current cycle
    requests,      \* history: the ScanMarketStream calls made
    cycles         \* history: one record per completed cycle

cycleVars == <<cycleCfg, scannerPc, forceFullNext, cyc, requests, cycles>>

\* the exchange HTTP client: its clock, token bucket and backoff manager
VARIABLES
    xnow,        \* clock of the client, in ticks of 1/TicksPerSec second
    limiter,     \* the RateLimiter
    lastAcq,     \* history: the last Acquire call and what it saw
    backoff,     \* globalBackoff's entry for the endpoint group "binance"
    callers,     \* the goroutines calling the exchange
    sent,        \* history: the HTTP requests handed to the transport
    windowEnd    \* history: the latest end of the backoff windows opened by
                 \* 429/418 responses (0 when all have elapsed)

netVars == <<xnow, limiter, lastAcq, backoff, callers, sent, windowEnd>>

\* the supervisor (main) and its long-running tasks
VARIABLES
    snow,        \* clock of the supervisor, in seconds
    sup,         \* main: position, cancellation, shutdown deadline
    svc          \* the task goroutines: position, wake-up time, history flags

supVars == <<snow, sup, svc>>

\* the exchange's order methods (BinanceExchange)
VARIABLES
    exCfg,       \* the configuration: dryRun, apiKeys
    exNano,      \* the wall clock read by time.Now().UnixNano()
    venue,       \* history: the signed requests that reached the venue
    replies      \* history: what the methods returned, in order

exVars == <<exCfg, exNano, venue, replies>>

\* the indicator functions
VARIABLES
    emaIn,       \* the arguments of CalculateEMA: prices, period
    emaOut       \* what CalculateEMA returned

indVars == <<emaIn, emaOut>>

VARIABLES
    rsiIn,       \* the arguments of CalculateRSI: prices, period
    rsiOut       \* what CalculateRSI returned

rsiVars == <<rsiIn, rsiOut>>

\* the decision side of ProcessSignal
VARIABLES
    psLog        \* history: the market data processed, with inputs and outcome

decVars == <<psLog>>

\* the text of the audit events
VARIABLES
    auditCfg,    \* cfg.OrderAuditEventMaxChars
    auditTexts   \* the order_audit list, every element the bytes of its string

txtVars == <<auditCfg, auditTexts>>

\* the volatility pool
VARIABLES
    poolKey,     \* the set under the volatility_pool key, and whether it has a TTL
    upc,         \* where UpdateVolatilityPool is
    upTop,       \* its topSymbols
    upPrev,      \* history: the set under the key when its pipeline was sent
    updates,     \* history: the number of UpdateVolatilityPool calls
    poolReads    \* history: what every GetSymbolPool call saw and returned

poolVars == <<poolKey, upc, upTop, upPrev, updates, poolReads>>

\* the context the engine is called with
VARIABLES
    engineCtxDone      \* it has been cancelled

ctxVars == <<engineCtxDone>>

tailVars == <<txtVars, poolVars, ctxVars>>

lateVars == <<rsiVars, decVars, tailVars>>

moreVars == <<exVars, indVars, lateVars>>

restVars == <<netVars, supVars, moreVars>>

auxVars == <<queueVars, scanVars, streamVars, cycleVars, restVars>>

vars == <<coreVars, auxVars>>

\* ------------------------------------------------------------ store: locks
ExecLockKey(symbol) == <<"execution:lock", symbol>>
GuardLockKey(symbol, positionSide) == <<"guard:lock", symbol, positionSide>>
LockKeys ==
    {ExecLockKey(s) : s \in Symbols} \cup
    {GuardLockKey(s, d) : s \in Symbols, d \in PosSides}

NoLock == [token |-> 0, exp |-> 0]

\* SET key token NX EX ttl succeeds iff the key is absent
SetNX(l, key) == l[key] = NoLock

acquireLock(l, key, token, ttl, t) ==
    [l EXCEPT ![key] = [token |-> token, exp |-> t + ttl]]

releaseLock_Unconditional(l, key, token) ==
    [l EXCEPT ![key] = NoLock]

\* the CAS-delete script: delete only when the stored value is the token
releaseLock(l, key, token) ==
    IF l[key].token = token THEN [l EXCEPT ![key] = NoLock] ELSE l

\* ----------------------------------------------------------- store: dedupe
\* fmt %.8f of a price held in units of 1e-9
Fmt8(price) == (price + 5) \div 10

TimeWindow_NoWindow(t, windowSec) == 0

TimeWindow(t, windowSec) == t \div windowSec

DedupeKey(signal, t, windowSec) ==
    <<signal.symbol, signal.action, signal.side, Fmt8(signal.entry),
      TimeWindow(t, windowSec)>>

DedupeExists_AnyWindow(d, key) ==
    \E r \in d : \A i \in 1..4 : r.key[i] = key[i]

\* EXISTS on the full key, window included
DedupeExists(d, key) == \E r \in d : r.key = key

DedupeSet(d, key, ttl, t) ==
    {r \in d : r.key # key} \cup {[key |-> key, exp |-> t + ttl]}

\* checkAndSetDedupe: when the EXISTS call fails the check lets the signal
\* through without writing a marker; otherwise it returns FALSE when the key
\* exists, and writes the marker and returns TRUE when it does not
checkAndSetDedupe(d, signal, windowSec, t, existsErr) ==
    LET key == DedupeKey(signal, t, windowSec)
    IN  IF existsErr
        THEN [ok |-> TRUE, dedupe |-> d]
        ELSE IF DedupeExists(d, key)
        THEN [ok |-> FALSE, dedupe |-> d]
        ELSE [ok |-> TRUE, dedupe |-> DedupeSet(d, key, windowSec, t)]

\* ------------------------------------------------------------ store: lists
OrderAuditMaxLen == 4
TradeHistoryMaxLen == 4

LTrim_OffByOne(list, maxLen) ==
    IF Len(list) > maxLen + 1 THEN SubSeq(list, 1, maxLen + 1) ELSE list

LTrim(list, maxLen) ==
    IF Len(list) > maxLen THEN SubSeq(list, 1, maxLen) ELSE list

saveAudit(list, event, symbol) ==
    LTrim(<<[event |-> event, symbol |-> symbol]>> \o list, OrderAuditMaxLen)

pushTradeHistory(list, event, symbol, id) ==
    LTrim(<<[event |-> event, symbol |-> symbol, call |-> id]>> \o list,
          TradeHistoryMaxLen)

\* ------------------------------------------------------ store: protection
TP1PartialRatioPct == 50

ProtectionTTLSec == 86400

NoProt == [sl |-> 0, tp1 |-> 0, tp2 |-> 0, ratio |-> 0, exp |-> 0,
           set |-> FALSE]

\* SET protection:{symbol}:{SIDE} with the configured TTL
SaveProtection(prot, symbol, side, stopLoss, takeProfit1, takeProfit2, t) ==
    [prot EXCEPT ![<<symbol, ToUpper(side)>>] =
        [sl |-> stopLoss, tp1 |-> takeProfit1, tp2 |-> takeProfit2,
         ratio |-> TP1PartialRatioPct, exp |-> t + ProtectionTTLSec,
         set |-> TRUE]]

\* ---------------------------------------------------------------- exchange
mapSide(action) ==
    IF action = "open_long" \/ action = "close_short" THEN "BUY" ELSE "SELL"

Order(id, sym, side, posSide, type, qty, price, stopPrice, ro, status) ==
    [id |-> id, symbol |-> sym, side |-> side, positionSide |-> posSide,
     orderType |-> type, quantity |-> qty, price |-> price,
     stopPrice |-> stopPrice, reduceOnly |-> ro, status |-> status]

OrderQuantity(signal) ==
    LET notionalUSDT ==
            IF signal.quantity > 0
            THEN signal.quantity * signal.entry
            ELSE StratDefaultNotionalUSDT * QtyScale
    IN  notionalUSDT \div signal.entry

OrderById(id) == CHOOSE o \in orders : o.id = id

\* ------------------------------------------------------------ engine calls
IdleCur ==
    [id |-> 0, op |-> "", sig |-> NoSig, token |-> 0,
     during |-> {}, t0 |-> 0, orderId |-> 0, nextTick |-> 0,
     deadline |-> 0, size |-> 0, posSide |-> "", confirm |-> ""]

\* calls that hold (or held) the execution lock of the symbol and have not
\* returned yet
LockedPcs == {"placing", "confirming", "c_placing"}

InFlight(symbol) ==
    {q \in Procs : pc[q] \in LockedPcs /\ cur[q].sig.symbol = symbol}

NoCall == [id |-> 0, op |-> "", sig |-> NoSig, result |-> "", during |-> {},
           orderId |-> 0, confirm |-> "", atRelease |-> "none"]

\* a command sent to the store with the context of the call: it is refused
\* once the context is cancelled, and the store keeps what it had
WithCtx(done, old) == IF engineCtxDone THEN old ELSE done

Return_GoOn(p, c, result, l) ==
    /\ pc' = [pc EXCEPT ![p] = "placing"]
    /\ cur' = [cur EXCEPT ![p] = c]
    /\ last' = [last EXCEPT ![p] =
         [id |-> c.id, op |-> c.op, sig |-> c.sig, result |-> result,
          during |-> c.during, orderId |-> c.orderId, confirm |-> c.confirm,
          atRelease |-> "none"]]

\* the call returns; l is the lock store its deferred releaseLock ran against
Return(p, c, result, l) ==
    /\ pc' = [pc EXCEPT ![p] = "idle"]
    /\ cur' = [cur EXCEPT ![p] = IdleCur]
    /\ last' = [last EXCEPT ![p] =
         [id |-> c.id, op |-> c.op, sig |-> c.sig, result |-> result,
          during |-> c.during, orderId |-> c.orderId, confirm |-> c.confirm,
          \* what the release found under the lock key
          atRelease |->
              IF c.token = 0 \/ l[ExecLockKey(c.sig.symbol)] = NoLock
              THEN "none"
              ELSE IF l[ExecLockKey(c.sig.symbol)].token = c.token
                   THEN "own" ELSE "other"]]

\* PlaceOrderFromSignal, steps 1-4: lock, dedupe, pre_order audit, entry check
PlaceBegin(p, s) ==
    /\ pc[p] = "idle"
    /\ calls < MaxCalls
    /\ s.action \in {"open_long", "open_short"}
    /\ calls' = calls + 1
    /\ LET id == calls + 1
           key == ExecLockKey(s.symbol)
           c0 == [IdleCur EXCEPT !.id = id, !.op = "place", !.sig = s,
                                 !.during = {cur[q].id : q \in InFlight(s.symbol)}]
       IN  IF engineCtxDone \/ ~SetNX(locks, key)
           THEN /\ Return(p, c0, "lock_contended", locks)
                /\ UNCHANGED <<locks, dedupe, audit, checks>>
           ELSE \E existsErr \in BOOLEAN :
                LET c == [c0 EXCEPT !.token = id, !.t0 = now]
                    held == acquireLock(locks, key, id, LockTTLSec, now)
                    dd == checkAndSetDedupe(dedupe, s, OrderDedupeWindow, now,
                                            existsErr)
                    chk == [id |-> id, symbol |-> s.symbol,
                            action |-> s.action, side |-> s.side,
                            price8 |-> Fmt8(s.entry), entry |-> s.entry,
                            t |-> now,
                            key |-> DedupeKey(s, now, OrderDedupeWindow),
                            err |-> existsErr, ok |-> dd.ok]
                IN  /\ checks' = checks \cup {chk}
                    /\ dedupe' = dd.dedupe
                    /\ IF ~dd.ok
                       THEN /\ locks' = releaseLock(held, key, id)
                            /\ Return(p, c, "duplicate", held)
                            /\ UNCHANGED audit
                       ELSE /\ audit' = saveAudit(audit, "pre_order", s.symbol)
                            /\ IF s.entry <= 0
                               THEN /\ locks' = releaseLock(held, key, id)
                                    /\ Return(p, c, "bad_entry", held)
                               ELSE /\ locks' = held
                                    /\ pc' = [pc EXCEPT ![p] = "placing"]
                                    /\ cur' = [cur EXCEPT ![p] = c]
                                    /\ UNCHANGED last
    /\ UNCHANGED <<now, protection, tradeHistory, orders, positions, nextOrder,
                   gpc, gl, passLog, opened, savedFor>>
    /\ UNCHANGED auxVars

\* step 5/6: the exchange rejects the order
PlaceOrderError(p) ==
    /\ pc[p] = "placing"
    /\ audit' = WithCtx(saveAudit(audit, "order_failed", cur[p].sig.symbol),
                        audit)
    /\ locks' = WithCtx(releaseLock(locks, ExecLockKey(cur[p].sig.symbol),
                                    cur[p].token), locks)
    /\ Return(p, cur[p], "order_failed", locks)
    /\ UNCHANGED <<now, dedupe, protection, tradeHistory, orders, positions,
                   checks, nextOrder, calls,
                   gpc, gl, passLog, opened, savedFor>>
    /\ UNCHANGED auxVars

\* step 5: the exchange accepts the LIMIT order; confirmation starts
PlaceOrderOk(p) ==
    /\ pc[p] = "placing"
    /\ LET s == cur[p].sig
       IN  orders' = orders \cup
             {Order(nextOrder, s.symbol, mapSide(s.action), ToUpper(s.side),
                    "LIMIT", OrderQuantity(s), s.entry, 0, FALSE, "NEW")}
    /\ nextOrder' = nextOrder + 1
    /\ pc' = [pc EXCEPT ![p] = "confirming"]
    /\ cur' = [cur EXCEPT ![p].orderId = nextOrder,
                          ![p].nextTick = now + ConfirmTickSec,
                          ![p].deadline = now + ConfirmTimeoutSec]
    /\ UNCHANGED <<now, locks, dedupe, protection, audit, tradeHistory,
                   positions, last, checks, calls,
                   gpc, gl, passLog, opened, savedFor>>
    /\ UNCHANGED auxVars

\* the exchange forgets an order once it is terminal and nobody polls it
Forget(os, id) == {o \in os : o.id # id \/ o.status = "NEW"}

\* steps 7-9 after confirmOrder has returned (whatever it returned)
PlaceFinish(p, confirmReason) ==
    LET s == cur[p].sig
    IN  /\ protection' =
              IF s.sl > 0 \/ s.tp > 0
              THEN WithCtx(SaveProtection(protection, s.symbol, s.side, s.sl,
                                          s.tp, 0, now), protection)
              ELSE protection
        /\ savedFor' =
              IF s.sl > 0 \/ s.tp > 0
              THEN WithCtx(savedFor \cup {<<s.symbol, ToUpper(s.side)>>},
                           savedFor)
              ELSE savedFor
        /\ tradeHistory' =
              WithCtx(pushTradeHistory(tradeHistory, "order_placed", s.symbol,
                                       cur[p].id), tradeHistory)
        /\ locks' = WithCtx(releaseLock(locks, ExecLockKey(s.symbol),
                                        cur[p].token), locks)
        /\ orders' = Forget(orders, cur[p].orderId)
        /\ Return(p, [cur[p] EXCEPT !.confirm = confirmReason], "ok", locks)

\* confirmOrder: one round of its select, the context being done or the 2 s
\* ticker firing
confirmOrder(p) ==
    /\ pc[p] = "confirming"
    /\ engineCtxDone \/ now >= cur[p].nextTick
    /\ \/ /\ engineCtxDone
          /\ PlaceFinish(p, "cancelled")
       \/ /\ now >= cur[p].nextTick
          /\ now >= cur[p].deadline
          /\ PlaceFinish(p, "timeout")
       \/ /\ now >= cur[p].nextTick
          /\ now < cur[p].deadline
          /\ \E resp \in {"ERR", OrderById(cur[p].orderId).status} :
               IF resp \in {"FILLED", "CANCELED", "REJECTED"}
               THEN PlaceFinish(p, resp)
               ELSE /\ cur' = [cur EXCEPT ![p].nextTick = @ + ConfirmTickSec]
                    /\ UNCHANGED <<locks, protection, tradeHistory, orders,
                                   pc, last, savedFor>>
    /\ UNCHANGED <<now, dedupe, audit, positions, checks, nextOrder, calls,
                   gpc, gl, passLog, opened>>
    /\ UNCHANGED auxVars

\* ClosePositionFromAction: GetPosition, the checks, and the lock
CloseBegin(p, s) ==
    /\ pc[p] = "idle"
    /\ calls < MaxCalls
    /\ s.action \in {"close_long", "close_short"}
    /\ calls' = calls + 1
    /\ LET id == calls + 1
           positionSide == IF s.action = "close_long" THEN "LONG" ELSE "SHORT"
           key == ExecLockKey(s.symbol)
           c0 == [IdleCur EXCEPT !.id = id, !.op = "close", !.sig = s,
                                 !.during = {cur[q].id : q \in InFlight(s.symbol)}]
           held == {d \in PosSides : positions[<<s.symbol, d>>] > 0}
       IN  \/ /\ Return(p, c0, "position_error", locks)
              /\ UNCHANGED locks
           \/ /\ held = {}
              /\ Return(p, c0, "no_position", locks)
              /\ UNCHANGED locks
           \/ \E d \in held :
                IF d # positionSide
                THEN /\ Return(p, c0, "side_mismatch", locks)
                     /\ UNCHANGED locks
                ELSE IF engineCtxDone \/ ~SetNX(locks, key)
                THEN /\ Return(p, c0, "lock_contended", locks)
                     /\ UNCHANGED locks
                ELSE /\ locks' = acquireLock(locks, key, id, LockTTLSec, now)
                     /\ pc' = [pc EXCEPT ![p] = "c_placing"]
                     /\ cur' = [cur EXCEPT ![p] =
                                  [c0 EXCEPT !.token = id, !.t0 = now,
                                             !.posSide = d,
                                             !.size = positions[<<s.symbol, d>>]]]
                     /\ UNCHANGED last
    /\ UNCHANGED <<now, dedupe, protection, audit, tradeHistory, orders,
                   positions, checks, nextOrder,
                   gpc, gl, passLog, opened, savedFor>>
    /\ UNCHANGED auxVars

ClosePlaceError(p) ==
    /\ pc[p] = "c_placing"
    /\ audit' = WithCtx(saveAudit(audit, "close_failed", cur[p].sig.symbol),
                        audit)
    /\ locks' = WithCtx(releaseLock(locks, ExecLockKey(cur[p].sig.symbol),
                                    cur[p].token), locks)
    /\ Return(p, cur[p], "close_failed", locks)
    /\ UNCHANGED <<now, dedupe, protection, tradeHistory, orders, positions,
                   checks, nextOrder, calls,
                   gpc, gl, passLog, opened, savedFor>>
    /\ UNCHANGED auxVars

\* the order request of ClosePositionFromAction with the size GetPosition
\* answered, and the same with the size the position has now
CloseOrderRequest_Now(c) ==
    Order(0, c.sig.symbol, mapSide(c.sig.action), c.posSide, "MARKET",
          positions[<<c.sig.symbol, c.posSide>>], 0, 0, TRUE, "NEW")

CloseOrderRequest(c) ==
    Order(0, c.sig.symbol, mapSide(c.sig.action), c.posSide, "MARKET",
          c.size, 0, 0, TRUE, "NEW")

\* the MARKET reduce-only order executes against what is left of the position
ClosePlaceOk(p) ==
    /\ pc[p] = "c_placing"
    /\ LET s == cur[p].sig
           k == <<s.symbol, cur[p].posSide>>
           req == CloseOrderRequest(cur[p])
           fill == IF req.quantity < positions[k] THEN req.quantity ELSE positions[k]
       IN  /\ positions[k] > 0
           /\ positions' = [positions EXCEPT ![k] = @ - fill]
           /\ opened' = IF positions[k] = fill THEN opened \ {k} ELSE opened
           /\ savedFor' = IF positions[k] = fill THEN savedFor \ {k} ELSE savedFor
           /\ tradeHistory' =
                 WithCtx(pushTradeHistory(tradeHistory, "position_closed",
                                          s.symbol, cur[p].id), tradeHistory)
           /\ locks' = WithCtx(releaseLock(locks, ExecLockKey(s.symbol),
                                           cur[p].token), locks)
    /\ nextOrder' = nextOrder + 1
    /\ Return(p, [cur[p] EXCEPT !.orderId = nextOrder], "ok", locks)
    /\ UNCHANGED <<now, dedupe, protection, audit, orders, checks, calls,
                   gpc, gl, passLog>>
    /\ UNCHANGED auxVars

\* ----------------------------------------------------------- exchange side
Polled(id) == \E p \in Procs : pc[p] = "confirming" /\ cur[p].orderId = id

\* a resting LIMIT order fills and opens (adds to) the position
ExchFill(o) ==
    /\ o \in orders
    /\ o.status = "NEW"
    /\ o.orderType = "LIMIT"
    /\ orders' = IF Polled(o.id)
                 THEN (orders \ {o}) \cup {[o EXCEPT !.status = "FILLED"]}
                 ELSE orders \ {o}
    /\ positions' = [positions EXCEPT ![<<o.symbol, o.positionSide>>] = @ + o.quantity]
    /\ opened' = opened \cup {<<o.symbol, o.positionSide>>}
    /\ UNCHANGED <<now, locks, dedupe, protection, audit, tradeHistory, pc,
                   cur, last, checks, nextOrder, calls,
                   gpc, gl, passLog, savedFor>>
    /\ UNCHANGED auxVars

\* a resting LIMIT order is cancelled on the exchange side or rejected by it
\* after having been accepted
ExchCancel(o, status) ==
    /\ o \in orders
    /\ o.status = "NEW"
    /\ o.orderType = "LIMIT"
    /\ status \in {"CANCELED", "REJECTED"}
    /\ orders' = IF Polled(o.id)
                 THEN (orders \ {o}) \cup {[o EXCEPT !.status = status]}
                 ELSE orders \ {o}
    /\ UNCHANGED <<now, locks, dedupe, protection, audit, tradeHistory,
                   positions, pc, cur, last, checks, nextOrder, calls,
                   gpc, gl, passLog, opened, savedFor>>
    /\ UNCHANGED auxVars

\* ------------------------------------------------------------------- guard
MaxPasses == 2

PosKeys == Symbols \X PosSides

\* GetPositions: one entry per non-zero position, Side LONG or SHORT
GetPositions ==
    {[symbol |-> k[1], side |-> k[2], size |-> positions[k]] :
        k \in {x \in PosKeys : positions[x] > 0}}

\* GetOpenOrders: the response is converted field by field; ReduceOnly is not
\* among the fields copied, so every returned order carries its zero value
GetOpenOrders(symbol) ==
    {[o EXCEPT !.reduceOnly = FALSE] :
        o \in {x \in orders : x.symbol = symbol /\ x.status = "NEW"}}

Abs(x) == IF x < 0 THEN 0 - x ELSE x

isStopLossOrder(o) == o.orderType \in {"STOP", "STOP_MARKET"}

isTakeProfitOrder(o) == o.orderType \in {"TAKE_PROFIT", "TAKE_PROFIT_MARKET"}

\* cleanup's test: decided by the order type alone
isReduceOnly(o) == isTakeProfitOrder(o) \/ isStopLossOrder(o)

getOrderPositionSide(o) == ToUpper(o.positionSide)

\* the reconcile loop's direction test; side is the lower-cased position side
ClosesSide(o, side) ==
    \/ side = "LONG" /\ o.side = "SELL"
    \/ side = "SHORT" /\ o.side = "BUY"

GuardHasSL(os, side) ==
    \E o \in os : o.reduceOnly /\ isStopLossOrder(o) /\ ClosesSide(o, side)

IsTP1(o, takeProfit1, takeProfit2) ==
    takeProfit1 > 0 /\ Abs(o.price - takeProfit1) < Abs(o.price - takeProfit2)

GuardHasTP1(os, side, takeProfit1, takeProfit2) ==
    \E o \in os :
        /\ o.reduceOnly /\ isTakeProfitOrder(o) /\ ClosesSide(o, side)
        /\ IsTP1(o, takeProfit1, takeProfit2)

GuardHasTP2(os, side, takeProfit1, takeProfit2) ==
    \E o \in os :
        /\ o.reduceOnly /\ isTakeProfitOrder(o) /\ ClosesSide(o, side)
        /\ ~IsTP1(o, takeProfit1, takeProfit2)
        /\ takeProfit2 > 0

\* amt1 = round(size * ratio), amt2 = the rest; all of it when amt1 <= 0
ClampRatio_None(ratioPct) == ratioPct

\* math.Max(0, math.Min(tp1Ratio, 1)), the ratio held in percent
ClampRatio(ratioPct) ==
    IF ratioPct < 0 THEN 0 ELSE IF ratioPct > 100 THEN 100 ELSE ratioPct

\* math.Round(x * 1e8) / 1e8 of x = n / 100 quantity units (one unit = 1e-8),
\* half away from zero
Round8(n) == IF n >= 0 THEN (n + 50) \div 100 ELSE 0 - ((50 - n) \div 100)

Amt1(size, ratioPct) ==
    LET a == Round8(size * ClampRatio(ratioPct))
    IN  IF a <= 0 THEN size ELSE a

Amt2(size, ratioPct) ==
    LET a == Round8(size * ClampRatio(ratioPct))
    IN  IF a <= 0 THEN 0 ELSE IF size - a > 0 THEN size - a ELSE 0

placeStopLossOrder(id, symbol, side, quantity, stopPrice) ==
    Order(id, symbol, IF side = "SHORT" THEN "BUY" ELSE "SELL", ToUpper(side),
          "STOP_MARKET", quantity, 0, stopPrice, TRUE, "NEW")

placeTakeProfitOrder(id, symbol, side, quantity, tpPrice) ==
    Order(id, symbol, IF side = "SHORT" THEN "BUY" ELSE "SELL", ToUpper(side),
          "TAKE_PROFIT_MARKET", quantity, 0, tpPrice, TRUE, "NEW")

IdleGuard ==
    [posMap |-> [k \in Symbols \X {"long", "short"} |-> 0], todo |-> {},
     keys |-> {}, placed |-> 0, clean |-> TRUE,
     pos0 |-> [k \in PosKeys |-> 0], prot0 |-> [k \in PosKeys |-> NoProt],
     calls0 |-> 0, busy0 |-> FALSE, orphans |-> {}, posErr |-> FALSE,
     recon |-> {}]

\* what one run of the position loop's body did: how it ended, the
\* quantities it computed and the quantity of every leg it placed (0: none)
Recon(k, seq, outcome, failed, size, prot, amt1, amt2, slQty, tp1Qty, tp2Qty) ==
    [k |-> k, seq |-> seq, outcome |-> outcome, failed |-> failed,
     size |-> size, tp2 |-> prot.tp2, ratio |-> prot.ratio,
     amt1 |-> amt1, amt2 |-> amt2,
     slQty |-> slQty, tp1Qty |-> tp1Qty, tp2Qty |-> tp2Qty]

\* the loop goes on with the next position whatever the body did
NextTodo_StopOnFailure(todo, pos, failed) ==
    IF failed THEN {} ELSE todo \ {pos}

NextTodo(todo, pos, failed) == todo \ {pos}

\* what the exchange and the store really hold for a position
ProtectiveOrders(k) ==
    {o \in orders : /\ o.symbol = k[1] /\ o.positionSide = k[2]
                    /\ o.status = "NEW" /\ o.reduceOnly}

ProtectiveIds == {o.id : o \in {x \in orders : x.reduceOnly}}

\* the pass returns: the history keeps what it started from and what it left
EndPass(g) ==
    /\ passLog' = Append(passLog,
         [pos0 |-> g.pos0, prot0 |-> g.prot0, calls0 |-> g.calls0,
          busy0 |-> g.busy0, orphans |-> g.orphans, placed |-> g.placed,
          clean |-> g.clean, pos1 |-> positions, prot1 |-> protection,
          posErr |-> g.posErr, recon |-> g.recon,
          calls1 |-> calls,
          ids |-> ProtectiveIds,
          left |-> {k \in g.orphans :
                      protection[k].set \/ ProtectiveOrders(k) # {}}])
    /\ gpc' = "idle"
    /\ gl' = IdleGuard

\* EnsureSLTPGuardOnce up to the position loop: GetPositions, posMap
GuardBegin ==
    /\ gpc = "idle"
    /\ Len(passLog) < MaxPasses
    /\ \E err \in BOOLEAN :
         LET ps == GetPositions
             g == [IdleGuard EXCEPT
                     !.posMap = [k \in Symbols \X {"long", "short"} |->
                                   positions[<<k[1], ToUpper(k[2])>>]],
                     !.todo = ps, !.clean = ~err, !.posErr = err,
                     !.pos0 = positions, !.prot0 = protection,
                     !.calls0 = calls,
                     !.busy0 = \E p \in Procs : pc[p] # "idle",
                     !.orphans = {k \in PosKeys :
                                    protection[k].set /\ positions[k] = 0}]
         IN  IF err \/ ps = {}
             THEN EndPass(g)
             ELSE /\ gpc' = "reconcile"
                  /\ gl' = g
                  /\ UNCHANGED passLog
    /\ UNCHANGED <<now, locks, dedupe, protection, audit, tradeHistory, orders,
                   positions, pc, cur, last, checks, nextOrder, calls, opened,
                   savedFor>>
    /\ UNCHANGED auxVars

GuardToken == 0 - (Len(passLog) + 1)

\* the position loop's body for one position of the snapshot
GuardReconcile(pos) ==
    /\ gpc = "reconcile"
    /\ pos \in gl.todo
    /\ LET symbol == pos.symbol
           side == ToLower(pos.side)
           positionSide == ToUpper(pos.side)
           size == pos.size
           lockKey == GuardLockKey(symbol, positionSide)
           prot == protection[<<symbol, positionSide>>]
           k == <<symbol, positionSide>>
           seq == Cardinality(gl.recon) + 1
           after(failed, r) ==
               [gl EXCEPT !.todo = NextTodo(@, pos, failed),
                          !.recon = @ \cup {r},
                          !.clean = @ /\ ~failed]
       IN  IF ~SetNX(locks, lockKey)
           THEN \* lock held elsewhere: skip
                /\ gl' = [after(TRUE, Recon(k, seq, "lock_contended", TRUE, size,
                                            prot, 0, 0, 0, 0, 0))
                            EXCEPT !.clean = gl.clean]
                /\ UNCHANGED <<locks, audit, orders, nextOrder>>
           ELSE IF ~prot.set
           THEN \* no Protection record: skip
                /\ gl' = [after(TRUE, Recon(k, seq, "no_protection", TRUE, size,
                                            prot, 0, 0, 0, 0, 0))
                            EXCEPT !.clean = gl.clean]
                /\ UNCHANGED <<locks, audit, orders, nextOrder>>
           ELSE IF prot.sl <= 0 \/ prot.tp1 <= 0
           THEN /\ audit' = saveAudit(audit, "guard_invalid_protection_params",
                                      symbol)
                /\ locks' = releaseLock(
                       acquireLock(locks, lockKey, GuardToken, GuardLockTTLSec, now),
                       lockKey, GuardToken)
                /\ gl' = [after(TRUE, Recon(k, seq, "invalid_params", TRUE, size,
                                            prot, 0, 0, 0, 0, 0))
                            EXCEPT !.clean = gl.clean]
                /\ UNCHANGED <<orders, nextOrder>>
           ELSE \E errs \in {{}} \cup {{e} : e \in {"orders", "sl", "tp1", "tp2"}} :
                LET os == IF "orders" \in errs THEN {} ELSE GetOpenOrders(symbol)
                    hasSL == GuardHasSL(os, side)
                    hasTP1 == GuardHasTP1(os, side, prot.tp1, prot.tp2)
                    hasTP2 == GuardHasTP2(os, side, prot.tp1, prot.tp2)
                    amt1 == Amt1(size, prot.ratio)
                    amt2 == Amt2(size, prot.ratio)
                    needTP2 == prot.tp2 > 0 /\ amt2 > 0
                    doSL == ~hasSL /\ "sl" \notin errs
                    doTP1 == ~hasTP1 /\ "tp1" \notin errs
                    doTP2 == needTP2 /\ ~hasTP2 /\ "tp2" \notin errs
                    n1 == IF doSL THEN nextOrder + 1 ELSE nextOrder
                    n2 == IF doTP1 THEN n1 + 1 ELSE n1
                    n3 == IF doTP2 THEN n2 + 1 ELSE n2
                    a1 == IF doSL
                          THEN saveAudit(audit, "guard_stop_loss_placed", symbol)
                          ELSE audit
                    a2 == IF doTP1
                          THEN saveAudit(a1, "guard_take_profit_placed", symbol)
                          ELSE a1
                    a3 == IF doTP2
                          THEN saveAudit(a2, "guard_take_profit_placed", symbol)
                          ELSE a2
                    failed ==
                        \/ "orders" \in errs
                        \/ ~hasSL /\ "sl" \in errs
                        \/ ~hasTP1 /\ "tp1" \in errs
                        \/ needTP2 /\ ~hasTP2 /\ "tp2" \in errs
                IN  /\ orders' = orders
                         \cup (IF doSL
                               THEN {placeStopLossOrder(nextOrder, symbol,
                                        positionSide, size, prot.sl)}
                               ELSE {})
                         \cup (IF doTP1
                               THEN {placeTakeProfitOrder(n1, symbol,
                                        positionSide, amt1, prot.tp1)}
                               ELSE {})
                         \cup (IF doTP2
                               THEN {placeTakeProfitOrder(n2, symbol,
                                        positionSide, amt2, prot.tp2)}
                               ELSE {})
                    /\ nextOrder' = n3
                    /\ audit' = a3
                    /\ locks' = releaseLock(
                           acquireLock(locks, lockKey, GuardToken,
                                       GuardLockTTLSec, now),
                           lockKey, GuardToken)
                    /\ gl' = [after(failed,
                                    Recon(k, seq, "done", failed, size, prot,
                                          amt1, amt2,
                                          IF doSL THEN size ELSE 0,
                                          IF doTP1 THEN amt1 ELSE 0,
                                          IF doTP2 THEN amt2 ELSE 0))
                                EXCEPT !.placed = @ + (n3 - nextOrder)]
    /\ UNCHANGED <<now, dedupe, protection, tradeHistory, positions, pc, cur,
                   last, checks, calls, gpc, passLog, opened, savedFor>>
    /\ UNCHANGED auxVars

\* cleanupProtection: SCAN protection:*
GuardScan ==
    /\ gpc = "reconcile"
    /\ gl.todo = {}
    /\ \E scanErr \in BOOLEAN :
         IF scanErr
         THEN EndPass([gl EXCEPT !.clean = FALSE])
         ELSE /\ gpc' = "cleanup"
              /\ gl' = [gl EXCEPT !.keys = {k \in PosKeys : protection[k].set}]
              /\ UNCHANGED passLog
    /\ UNCHANGED <<now, locks, dedupe, protection, audit, tradeHistory, orders,
                   positions, pc, cur, last, checks, nextOrder, calls, opened,
                   savedFor>>
    /\ UNCHANGED auxVars

\* cleanupProtection: the loop body for one scanned key
GuardCleanupKey(k) ==
    /\ gpc = "cleanup"
    /\ k \in gl.keys
    /\ LET symbol == ToUpper(k[1])
           positionSide == ToUpper(k[2])
           side == ToLower(positionSide)
           curAmt == gl.posMap[<<symbol, side>>]
           rest == [gl EXCEPT !.keys = @ \ {k}]
       IN  IF curAmt > 0
           THEN /\ gl' = rest
                /\ UNCHANGED <<orders, audit, protection>>
           ELSE \E ordersErr, delErr \in BOOLEAN :
                LET cands == IF ordersErr THEN {}
                             ELSE {o \in GetOpenOrders(symbol) :
                                     /\ isReduceOnly(o)
                                     /\ getOrderPositionSide(o) = positionSide}
                IN  \E refused \in {{}} \cup {{o} : o \in cands} :
                      LET cancelled == {o.id : o \in cands \ refused}
                      IN  /\ orders' = {o \in orders : o.id \notin cancelled}
                          /\ audit' =
                                IF cancelled # {}
                                THEN saveAudit(audit,
                                        "auto_cancel_reduceonly_after_flat", symbol)
                                ELSE audit
                          /\ protection' =
                                IF delErr THEN protection
                                ELSE [protection EXCEPT ![k] = NoProt]
                          /\ gl' = [rest EXCEPT !.clean =
                                      @ /\ ~ordersErr /\ ~delErr /\ refused = {}]
    /\ UNCHANGED <<now, locks, dedupe, tradeHistory, positions, pc, cur, last,
                   checks, nextOrder, calls, gpc, passLog, opened, savedFor>>
    /\ UNCHANGED auxVars

\* cleanupProtection has gone through every scanned key: the pass returns
GuardEnd ==
    /\ gpc = "cleanup"
    /\ gl.keys = {}
    /\ EndPass(gl)
    /\ UNCHANGED <<now, locks, dedupe, protection, audit, tradeHistory, orders,
                   positions, pc, cur, last, checks, nextOrder, calls, opened,
                   savedFor>>
    /\ UNCHANGED auxVars

\* a protective order triggers and executes against the position
ExchTrigger(o) ==
    /\ o \in orders
    /\ o.status = "NEW"
    /\ o.reduceOnly
    /\ positions[<<o.symbol, o.positionSide>>] > 0
    /\ LET k == <<o.symbol, o.positionSide>>
           fill == IF o.quantity < positions[k] THEN o.quantity ELSE positions[k]
       IN  /\ positions' = [positions EXCEPT ![k] = @ - fill]
           /\ opened' = IF positions[k] = fill THEN opened \ {k} ELSE opened
           /\ savedFor' = IF positions[k] = fill THEN savedFor \ {k} ELSE savedFor
    /\ orders' = orders \ {o}
    /\ UNCHANGED <<now, locks, dedupe, protection, audit, tradeHistory, pc, cur,
                   last, checks, nextOrder, calls, gpc, gl, passLog>>
    /\ UNCHANGED auxVars

\* -------------------------------------------------------------------- time
\* a key whose expiry second has begun may already be gone
ExpireKey ==
    /\ \/ \E k \in LockKeys :
            /\ locks[k] # NoLock
            /\ locks[k].exp = now
            /\ locks' = [locks EXCEPT ![k] = NoLock]
            /\ UNCHANGED dedupe
       \/ \E r \in dedupe :
            /\ r.exp = now
            /\ dedupe' = dedupe \ {r}
            /\ UNCHANGED locks
    /\ UNCHANGED <<now, protection, audit, tradeHistory, orders, positions,
                   pc, cur, last, checks, nextOrder, calls,
                   gpc, gl, passLog, opened, savedFor>>
    /\ UNCHANGED auxVars

CanWait(p) ==
    CASE pc[p] \in {"placing", "c_placing"} -> now < cur[p].t0 + MaxExchLatency
      [] pc[p] = "confirming" -> now < cur[p].nextTick
      [] OTHER -> TRUE

Tick(horizon) ==
    /\ now < horizon
    /\ \A p \in Procs : CanWait(p)
    /\ now' = now + 1
    /\ locks' = [k \in LockKeys |->
                    IF locks[k] # NoLock /\ locks[k].exp <= now
                    THEN NoLock ELSE locks[k]]
    /\ dedupe' = {r \in dedupe : r.exp > now}
    /\ protection' = [k \in Symbols \X PosSides |->
                         IF protection[k].set /\ protection[k].exp <= now
                         THEN NoProt ELSE protection[k]]
    /\ checks' = {r \in checks : r.t + OrderDedupeWindow >= now + 1}
    /\ UNCHANGED <<audit, tradeHistory, orders, positions, pc, cur, last,
                   nextOrder, calls, gpc, gl, passLog, opened, savedFor>>
    /\ UNCHANGED auxVars

\* ------------------------------------------------------------ trade queue
MaxPushes == 4
DefaultMaxTradeQueueSize == 100

\* configured max_trade_queue_size values; 0 stands for "not positive"
QueueSizes == {0, 1, 2}

QueueActions == {"open_long", "close_long"}

\* the clock's readings have one width in decimal, as UnixNano has between
\* 2001 and 2262: NanoEpoch..MaxNano stands for that range
NanoEpoch == 10
MaxNano == 13

SignalHistoryMaxLen == 2
DefaultSignalHistoryMaxLen == 500

SignalTimestamps == {0, 7}

QueueIdle ==
    /\ tradeQueue = <<>>
    /\ maxQueueSize = 0
    /\ pushed = 0
    /\ popped = <<>>
    /\ signalHistory = <<>>
    /\ wallNano = NanoEpoch
    /\ cycleSyms = {}
    /\ emitted = <<>>

RECURSIVE Digits(_)
\* %d of a number that is not negative: its decimal digits
Digits(n) == IF n < 10 THEN <<n>> ELSE Append(Digits(n \div 10), n % 10)

Underscore == 47        \* '_' - '0'

SignalID_TimestampOnly(symbol, nano, ts) ==
    [symbol |-> symbol, tail |-> Digits(ts)]

\* fmt.Sprintf("%s_%d_%d", symbol, nano, ts): the symbol, and the characters
\* after "symbol_" as their distances from '0'
SignalID(symbol, nano, ts) ==
    [symbol |-> symbol, tail |-> Digits(nano) \o <<Underscore>> \o Digits(ts)]

RECURSIVE StrLess(_, _)
\* a < b for strings, character by character
StrLess(a, b) ==
    IF b = <<>> THEN FALSE
    ELSE IF a = <<>> THEN TRUE
    ELSE IF a[1] # b[1] THEN a[1] < b[1]
    ELSE StrLess(Tail(a), Tail(b))

\* LPUSH then LTRIM 0 .. maxLen-1 on signal_history
PushSignalHistory(list, item) ==
    LET maxLen == IF SignalHistoryMaxLen <= 0 THEN DefaultSignalHistoryMaxLen
                  ELSE SignalHistoryMaxLen
    IN  LTrim(<<item>> \o list, maxLen)

PushTradeQueue_Tail(list, item, size) ==
    LET maxLen == IF size <= 0 THEN DefaultMaxTradeQueueSize ELSE size
    IN  LTrim(list \o <<item>>, maxLen)

\* LPUSH then LTRIM 0 .. maxQueueSize-1
PushTradeQueue(list, item, size) ==
    LET maxLen == IF size <= 0 THEN DefaultMaxTradeQueueSize ELSE size
    IN  LTrim(<<item>> \o list, maxLen)

\* ProcessSignal, for a trade action with a signal: the signal id, the push
\* onto signal_history and the push onto trade_queue
ProcessSignal(symbol, action, ts) ==
    /\ pushed < MaxPushes
    /\ symbol \notin cycleSyms
    /\ cycleSyms' = cycleSyms \cup {symbol}
    /\ pushed' = pushed + 1
    /\ LET item == [id |-> pushed + 1, action |-> action, symbol |-> symbol,
                    signalId |-> SignalID(symbol, wallNano, ts)]
       IN  /\ emitted' = Append(emitted, item)
           /\ signalHistory' = PushSignalHistory(signalHistory, item)
           /\ tradeQueue' = PushTradeQueue(tradeQueue, item, maxQueueSize)
    /\ UNCHANGED <<maxQueueSize, popped, wallNano>>
    /\ UNCHANGED <<coreVars, scanVars, streamVars, cycleVars, restVars>>

\* RunBot, one iteration that finds a signal: BRPOP takes the tail and the
\* signal goes to ClosePositionFromAction or PlaceOrderFromSignal
RunBot ==
    /\ tradeQueue # <<>>
    /\ LET item == tradeQueue[Len(tradeQueue)]
       IN  popped' = Append(popped,
                 [id |-> item.id,
                  to |-> IF item.action \in {"close_long", "close_short"}
                         THEN "ClosePositionFromAction"
                         ELSE "PlaceOrderFromSignal"])
    /\ tradeQueue' = SubSeq(tradeQueue, 1, Len(tradeQueue) - 1)
    /\ UNCHANGED <<maxQueueSize, pushed, signalHistory, wallNano, cycleSyms,
                   emitted>>
    /\ UNCHANGED <<coreVars, scanVars, streamVars, cycleVars, restVars>>

\* the wall clock moves on, inside a scan cycle or, with the interval wait,
\* into the next one
WallTick ==
    /\ wallNano < MaxNano
    /\ wallNano' = wallNano + 1
    /\ \/ UNCHANGED cycleSyms
       \/ cycleSyms' = {}
    /\ UNCHANGED <<tradeQueue, maxQueueSize, pushed, popped, signalHistory,
                   emitted>>
    /\ UNCHANGED <<coreVars, scanVars, streamVars, cycleVars, restVars>>

coreButLists == <<now, locks, dedupe, protection, orders, positions, pc, cur,
                  last, checks, nextOrder, calls, gpc, gl, passLog, opened,
                  savedFor>>

\* saveAudit called with an event
CallSaveAudit ==
    /\ audit' = saveAudit(audit, "pre_order", "BTCUSDT")
    /\ UNCHANGED <<tradeHistory, coreButLists, queueVars>>
    /\ UNCHANGED <<scanVars, streamVars, cycleVars, restVars>>

\* pushTradeHistory called with an event
CallPushTradeHistory ==
    /\ tradeHistory' = pushTradeHistory(tradeHistory, "order_placed",
                                        "BTCUSDT", 0)
    /\ UNCHANGED <<audit, coreButLists, queueVars>>
    /\ UNCHANGED <<scanVars, streamVars, cycleVars, restVars>>

\* -------------------------------------------------------------- ScanSymbol
Timeframes == <<"1m", "3m", "5m", "15m", "30m", "1h", "4h", "1d">>

\* positions in Timeframes of the results checked before anything is computed
CoreIndexes_Shifted == {1, 2, 3}

CoreIndexes == {1, 2, 4}

\* a fetch returns data, an error, or no error and nothing
FetchOutcomes == {"ok", "err", "empty"}

ScanSymbolNames == {"BTCUSDT", "btc-usdt", " "}

\* utils.NormalizeSymbol: trim, upper-case, drop spaces and dashes
NormalizeSymbol(symbol) ==
    CASE symbol = "btc-usdt" -> "BTCUSDT"
      [] symbol = " " -> ""
      [] OTHER -> symbol

NoScanIn ==
    [symbol |-> "", ohlcv |-> [i \in DOMAIN Timeframes |-> "ok"],
     ticker |-> "ok", funding |-> "ok", openInterest |-> "ok"]

NoMarketData ==
    [symbol |-> "", ohlcv |-> {}, currentPrice |-> "none",
     fundingRate |-> "none", openInterest |-> "none"]

NoScanOut == [returned |-> FALSE, err |-> "", data |-> NoMarketData]

ScanIdle ==
    /\ scanIn = NoScanIn
    /\ scanOut = NoScanOut

\* ScanSymbol: all fetches are awaited, then the core timeframes are checked
\* and the MarketData is built from whatever succeeded
ScanSymbol(in) ==
    LET symbol == NormalizeSymbol(in.symbol)
        got(i) == in.ohlcv[i] = "ok"
        missing == {i \in CoreIndexes : ~got(i)}
        first == CHOOSE i \in missing : \A j \in missing : i <= j
    IN  IF symbol = ""
        THEN [returned |-> TRUE, err |-> "invalid symbol", data |-> NoMarketData]
        ELSE IF missing # {}
        THEN [returned |-> TRUE, err |-> Timeframes[first], data |-> NoMarketData]
        ELSE [returned |-> TRUE, err |-> "",
              data |->
                [symbol |-> symbol,
                 ohlcv |-> {Timeframes[i] : i \in {j \in DOMAIN Timeframes : got(j)}},
                 currentPrice |-> IF in.ticker = "ok" THEN "ticker" ELSE "last_1m_close",
                 fundingRate |-> IF in.funding = "ok" THEN "fetched" ELSE "zero",
                 openInterest |-> IF in.openInterest = "ok" THEN "fetched" ELSE "zero"]]

CallScanSymbol ==
    /\ ~scanOut.returned
    /\ scanOut' = ScanSymbol(scanIn)
    /\ UNCHANGED scanIn
    /\ UNCHANGED <<coreVars, queueVars, streamVars, cycleVars, restVars>>

\* -------------------------------------------------------- ScanMarketStream
MaxPool == 3

ScanConcurrencies == {1, 2}

Tasks == 1..MaxPool

StreamIdle ==
    /\ streamCfg = [pool |-> 0, conc |-> 1]
    /\ ctxDone = FALSE
    /\ spawner = [state |-> "done", next |-> 1]
    /\ task = [t \in Tasks |-> "none"]
    /\ resultChan = [buf |-> <<>>, closed |-> FALSE]
    /\ consumer = [got |-> 0, done |-> FALSE]
    /\ panicked = FALSE

\* make(chan *types.MarketData, scanConc*2)
ChanCap == streamCfg.conc * 2

Running(t) == task[t] \notin {"none", "done"}

\* tasks between "sem <- struct{}{}" and the deferred "<-sem"
Holding == {t \in Tasks : task[t] \in {"scanning", "sending"}}

SemFree_Always(held, conc) == TRUE

SemFree_Never(held, conc) == FALSE

\* a send on the semaphore channel (capacity scanConc) goes through
SemFree(held, conc) == Cardinality(held) < conc

\* the spawning goroutine, one iteration of its loop: it returns (and the
\* deferred close runs) when the context is done, else it starts the task of
\* the next symbol; after the last symbol it goes on to wg.Wait
Spawn ==
    /\ ~panicked
    /\ spawner.state = "loop"
    /\ IF ctxDone
       THEN /\ spawner' = [spawner EXCEPT !.state = "done"]
            /\ resultChan' = [resultChan EXCEPT !.closed = TRUE]
            /\ UNCHANGED task
       ELSE /\ task' = [task EXCEPT ![spawner.next] = "sem"]
            /\ spawner' = [state |-> IF spawner.next = streamCfg.pool
                                     THEN "wait" ELSE "loop",
                           next |-> spawner.next + 1]
            /\ UNCHANGED resultChan
    /\ UNCHANGED <<streamCfg, ctxDone, consumer, panicked>>
    /\ UNCHANGED <<coreVars, queueVars, scanVars, cycleVars, restVars>>

\* wg.Wait returns, then the deferred close
Join ==
    /\ ~panicked
    /\ spawner.state = "wait"
    /\ \A t \in Tasks : ~Running(t)
    /\ spawner' = [spawner EXCEPT !.state = "done"]
    /\ resultChan' = [resultChan EXCEPT !.closed = TRUE]
    /\ UNCHANGED <<streamCfg, ctxDone, task, consumer, panicked>>
    /\ UNCHANGED <<coreVars, queueVars, scanVars, cycleVars, restVars>>

\* a task takes a slot of the semaphore
TaskAcquire(t) ==
    /\ ~panicked
    /\ task[t] = "sem"
    /\ SemFree(Holding, streamCfg.conc)
    /\ task' = [task EXCEPT ![t] = "scanning"]
    /\ UNCHANGED <<streamCfg, ctxDone, spawner, resultChan, consumer, panicked>>
    /\ UNCHANGED <<coreVars, queueVars, scanVars, cycleVars, restVars>>

\* ScanSymbol returns: on an error the task returns, else it goes to send
TaskScan(t) ==
    /\ ~panicked
    /\ task[t] = "scanning"
    /\ \E err \in BOOLEAN :
         task' = [task EXCEPT ![t] = IF err THEN "done" ELSE "sending"]
    /\ UNCHANGED <<streamCfg, ctxDone, spawner, resultChan, consumer, panicked>>
    /\ UNCHANGED <<coreVars, queueVars, scanVars, cycleVars, restVars>>

\* select { case resultChan <- data: case <-ctx.Done(): }: any ready case may
\* be taken; a send on a closed channel is ready and panics
TaskSend(t) ==
    /\ ~panicked
    /\ task[t] = "sending"
    /\ \/ /\ resultChan.closed
          /\ panicked' = TRUE
          /\ UNCHANGED <<task, resultChan>>
       \/ /\ ~resultChan.closed
          /\ Len(resultChan.buf) < ChanCap
          /\ resultChan' = [resultChan EXCEPT !.buf = Append(@, t)]
          /\ task' = [task EXCEPT ![t] = "done"]
          /\ UNCHANGED panicked
       \/ /\ ctxDone
          /\ task' = [task EXCEPT ![t] = "done"]
          /\ UNCHANGED <<resultChan, panicked>>
    /\ UNCHANGED <<streamCfg, ctxDone, spawner, consumer>>
    /\ UNCHANGED <<coreVars, queueVars, scanVars, cycleVars, restVars>>

\* the consumer's range loop receives an item
Recv ==
    /\ ~panicked
    /\ ~consumer.done
    /\ resultChan.buf # <<>>
    /\ resultChan' = [resultChan EXCEPT !.buf = Tail(@)]
    /\ consumer' = [consumer EXCEPT !.got = @ + 1]
    /\ UNCHANGED <<streamCfg, ctxDone, spawner, task, panicked>>
    /\ UNCHANGED <<coreVars, queueVars, scanVars, cycleVars, restVars>>

\* the range loop ends: the channel is closed and drained
RangeEnd ==
    /\ ~panicked
    /\ ~consumer.done
    /\ resultChan.closed
    /\ resultChan.buf = <<>>
    /\ consumer' = [consumer EXCEPT !.done = TRUE]
    /\ UNCHANGED <<streamCfg, ctxDone, spawner, task, resultChan, panicked>>
    /\ UNCHANGED <<coreVars, queueVars, scanVars, cycleVars, restVars>>

\* the caller's context is cancelled
Cancel ==
    /\ ~panicked
    /\ ~ctxDone
    /\ ~consumer.done
    /\ ctxDone' = TRUE
    /\ UNCHANGED <<streamCfg, spawner, task, resultChan, consumer, panicked>>
    /\ UNCHANGED <<coreVars, queueVars, scanVars, cycleVars, restVars>>

\* -------------------------------------------------------------- runScanner
MaxCycles == 2
MaxItems == 3

BatchSizes == {1, 2}

IdleCyc ==
    [left |-> 0, scannedTotal |-> 0, scannedOK |-> 0, anyAction |-> FALSE,
     workers |-> 0, pushed0 |-> 0]

CycleIdle ==
    /\ cycleCfg = [forceFull |-> FALSE, batch |-> 2]
    /\ scannerPc = "stopped"
    /\ forceFullNext = FALSE
    /\ cyc = IdleCyc
    /\ requests = <<>>
    /\ cycles = <<>>

ForceFullNext_IgnoreAction(cfgForceFull, anyAction, scannedOK, aiBatchSize) ==
    cfgForceFull /\ scannedOK <= aiBatchSize

\* analyzedAll and the assignment to forceFullNext at the end of a cycle
ForceFullNext(cfgForceFull, anyAction, scannedOK, aiBatchSize) ==
    LET analyzedAll == scannedOK = 0 \/ scannedOK <= aiBatchSize
    IN  cfgForceFull /\ ~anyAction /\ analyzedAll

\* top of the loop: ScanMarketStream(ctx, forceFullNext) fails (sleep and
\* continue) or returns a channel that will deliver some items
CycleBegin ==
    /\ scannerPc = "top"
    /\ Len(requests) < MaxCycles + 1
    /\ requests' = Append(requests,
                          [forceFull |-> forceFullNext, after |-> Len(cycles)])
    /\ \/ UNCHANGED <<scannerPc, cyc>>
       \/ \E n \in 0..MaxItems :
            /\ cyc' = [IdleCyc EXCEPT !.left = n, !.pushed0 = pushed]
            /\ scannerPc' = "range"
    /\ UNCHANGED <<cycleCfg, forceFullNext, cycles>>
    /\ UNCHANGED <<coreVars, queueVars, scanVars, streamVars, restVars>>

\* the range loop's body for one received value: counted, skipped when nil,
\* dropped by the prefilter, or handed to a worker once the pool has a free slot
CycleItem ==
    /\ scannerPc = "range"
    /\ cyc.left > 0
    /\ \E ok \in BOOLEAN, analyze \in BOOLEAN :
         /\ analyze => ok /\ cyc.workers < cycleCfg.batch
         /\ cyc' = [cyc EXCEPT !.left = @ - 1,
                               !.scannedTotal = @ + 1,
                               !.scannedOK = IF ok THEN @ + 1 ELSE @,
                               !.workers = IF analyze THEN @ + 1 ELSE @]
    /\ UNCHANGED <<cycleCfg, scannerPc, forceFullNext, requests, cycles>>
    /\ UNCHANGED <<coreVars, queueVars, scanVars, streamVars, restVars>>

\* a worker's ProcessSignal returns: true after it pushed a signal onto
\* trade_queue, false otherwise
CycleWorker ==
    /\ cyc.workers > 0
    /\ \E action \in BOOLEAN :
         IF action
         THEN /\ pushed' = pushed + 1
              /\ tradeQueue' = PushTradeQueue(tradeQueue,
                                   [id |-> pushed + 1, action |-> "open_long"],
                                   maxQueueSize)
              /\ cyc' = [cyc EXCEPT !.workers = @ - 1, !.anyAction = TRUE]
         ELSE /\ cyc' = [cyc EXCEPT !.workers = @ - 1]
              /\ UNCHANGED <<pushed, tradeQueue>>
    /\ UNCHANGED <<maxQueueSize, popped, signalHistory, wallNano, cycleSyms,
                   emitted>>
    /\ UNCHANGED <<cycleCfg, scannerPc, forceFullNext, requests, cycles>>
    /\ UNCHANGED <<coreVars, scanVars, streamVars, restVars>>

\* the channel is closed and drained, wg.Wait has returned: the result is
\* saved and forceFullNext is decided, then the loop sleeps until the next cycle
CycleEnd ==
    /\ scannerPc = "range"
    /\ cyc.left = 0
    /\ cyc.workers = 0
    /\ LET next == ForceFullNext(cycleCfg.forceFull, cyc.anyAction,
                                 cyc.scannedOK, cycleCfg.batch)
       IN  /\ forceFullNext' = next
           /\ cycles' = Append(cycles,
                  [enqueued |-> pushed - cyc.pushed0,
                   scannedOK |-> cyc.scannedOK, next |-> next])
    /\ scannerPc' = "top"
    /\ cyc' = IdleCyc
    /\ UNCHANGED <<cycleCfg, requests>>
    /\ UNCHANGED <<coreVars, queueVars, scanVars, streamVars, restVars>>

\* ------------------------------------------------- exchange order methods
MaxExCalls == 4

NoOrder == [id |-> [prefix |-> "", digits |-> <<>>], symbol |-> "",
            status |-> ""]

NoReply == [err |-> FALSE, order |-> NoOrder, ok |-> FALSE, list |-> <<>>]

\* the venue's answers: the HTTP status, and for a 200 the order status / the
\* number of entries of the list in the body
VenueStatuses == {200, 400}
VenueOrderStatuses == {"NEW", "FILLED"}
VenueListLens == {0, 1}

DryRun_Off(cfg) == FALSE

\* cfg := config.Get(); if cfg.DryRun
DryRun(cfg) == cfg.dryRun

\* cfg.BinanceAPIKey == "" || cfg.BinanceSecretKey == ""
NoKeys(cfg) == ~cfg.apiKeys

\* a method's outcome: the requests it sent and what it returned
Outcome(reqs, reply) == [reqs |-> reqs, reply |-> reply]

Failed == [NoReply EXCEPT !.err = TRUE]

\* PlaceOrder; resp is the venue's answer if a request is sent
PlaceOrder(cfg, symbol, nano, resp) ==
    IF DryRun(cfg)
    THEN Outcome(<<>>, [NoReply EXCEPT !.order =
             [id |-> [prefix |-> "dry_run_", digits |-> Digits(nano)],
              symbol |-> symbol, status |-> "NEW"]])
    ELSE IF NoKeys(cfg) THEN Outcome(<<>>, Failed)
    ELSE LET req == [method |-> "POST", endpoint |-> "/fapi/v1/order"]
         IN  IF resp.status # 200 THEN Outcome(<<req>>, Failed)
             ELSE Outcome(<<req>>, [NoReply EXCEPT !.order =
                      [id |-> [prefix |-> "", digits |-> Digits(resp.orderId)],
                       symbol |-> symbol, status |-> resp.orderStatus]])

\* CancelOrder
CancelOrder(cfg, resp) ==
    IF DryRun(cfg) THEN Outcome(<<>>, [NoReply EXCEPT !.ok = TRUE])
    ELSE IF NoKeys(cfg) THEN Outcome(<<>>, Failed)
    ELSE LET req == [method |-> "DELETE", endpoint |-> "/fapi/v1/order"]
         IN  IF resp.status # 200 THEN Outcome(<<req>>, Failed)
             ELSE Outcome(<<req>>, [NoReply EXCEPT !.ok = TRUE])

\* GetOrder
GetOrder(cfg, orderId, symbol, resp) ==
    IF DryRun(cfg)
    THEN Outcome(<<>>, [NoReply EXCEPT !.order =
             [id |-> [prefix |-> "", digits |-> Digits(orderId)],
              symbol |-> symbol, status |-> "FILLED"]])
    ELSE IF NoKeys(cfg) THEN Outcome(<<>>, Failed)
    ELSE LET req == [method |-> "GET", endpoint |-> "/fapi/v1/order"]
         IN  IF resp.status # 200 THEN Outcome(<<req>>, Failed)
             ELSE Outcome(<<req>>, [NoReply EXCEPT !.order =
                      [id |-> [prefix |-> "", digits |-> Digits(orderId)],
                       symbol |-> symbol, status |-> resp.orderStatus]])

\* a list read from the venue: GetOpenOrders, GetPositions
SignedList(cfg, endpoint, resp) ==
    IF DryRun(cfg) THEN Outcome(<<>>, NoReply)
    ELSE IF NoKeys(cfg) THEN Outcome(<<>>, Failed)
    ELSE LET req == [method |-> "GET", endpoint |-> endpoint]
         IN  IF resp.status # 200 THEN Outcome(<<req>>, Failed)
             ELSE Outcome(<<req>>, [NoReply EXCEPT !.list =
                      [i \in 1..resp.listLen |-> "entry"]])

VenueResponses ==
    [status : VenueStatuses, orderStatus : VenueOrderStatuses,
     orderId : {7}, listLen : VenueListLens]

ExIdle ==
    /\ exCfg = [dryRun |-> TRUE, apiKeys |-> FALSE]
    /\ exNano = NanoEpoch
    /\ venue = <<>>
    /\ replies = <<>>

ExFrame ==
    UNCHANGED <<coreVars, queueVars, scanVars, streamVars, cycleVars, netVars,
                supVars, indVars, lateVars>>

\* a method has returned: its requests have reached the venue, the caller
\* has its reply
ExReturn(op, out) ==
    /\ venue' = venue \o out.reqs
    /\ replies' = Append(replies, [op |-> op, reply |-> out.reply])

CallPlaceOrder ==
    /\ Len(replies) < MaxExCalls
    /\ \E symbol \in Symbols, dt \in 0..1, resp \in VenueResponses :
         /\ exNano' = exNano + dt
         /\ ExReturn("PlaceOrder", PlaceOrder(exCfg, symbol, exNano', resp))
    /\ UNCHANGED exCfg
    /\ ExFrame

CallCancelOrder ==
    /\ Len(replies) < MaxExCalls
    /\ \E resp \in VenueResponses :
         ExReturn("CancelOrder", CancelOrder(exCfg, resp))
    /\ UNCHANGED <<exCfg, exNano>>
    /\ ExFrame

CallGetOrder ==
    /\ Len(replies) < MaxExCalls
    /\ \E symbol \in Symbols, resp \in VenueResponses :
         ExReturn("GetOrder", GetOrder(exCfg, 7, symbol, resp))
    /\ UNCHANGED <<exCfg, exNano>>
    /\ ExFrame

CallGetOpenOrders ==
    /\ Len(replies) < MaxExCalls
    /\ \E resp \in VenueResponses :
         ExReturn("GetOpenOrders",
                  SignedList(exCfg, "/fapi/v1/openOrders", resp))
    /\ UNCHANGED <<exCfg, exNano>>
    /\ ExFrame

CallGetPositions ==
    /\ Len(replies) < MaxExCalls
    /\ \E resp \in VenueResponses :
         ExReturn("GetPositions",
                  SignedList(exCfg, "/fapi/v2/positionRisk", resp))
    /\ UNCHANGED <<exCfg, exNano>>
    /\ ExFrame

\* --------------------------------------------------------------- indicators
NoResult == [kind |-> "none", num |-> 0, den |-> 1]

IndIdle ==
    /\ emaIn = [prices |-> <<>>, period |-> 1]
    /\ emaOut = NoResult

RsiIdle ==
    /\ rsiIn = [prices |-> <<>>, period |-> 1]
    /\ rsiOut = NoResult

DecIdle == psLog = <<>>

TxtIdle ==
    /\ auditCfg = 0
    /\ auditTexts = <<>>

PoolIdle ==
    /\ poolKey = [members |-> {}, ttl |-> FALSE]
    /\ upc = "idle"
    /\ upTop = {}
    /\ upPrev = {}
    /\ updates = 0
    /\ poolReads = <<>>

CtxIdle == engineCtxDone = FALSE

TailIdle ==
    /\ TxtIdle
    /\ PoolIdle
    /\ CtxIdle

LateIdle ==
    /\ RsiIdle
    /\ DecIdle
    /\ TailIdle

MoreIdle ==
    /\ ExIdle
    /\ IndIdle
    /\ LateIdle

EarlyFrame ==
    UNCHANGED <<coreVars, queueVars, scanVars, streamVars, cycleVars, netVars,
                supVars, exVars, indVars>>

MaxPrices == 3
MaxPeriod == 3
PriceValues == {0, 1, 3}
Periods == (0 - 1)..MaxPeriod

\* float64 values are modelled as fractions num/den with den > 0: the prices
\* are small integers, so every sum, quotient and product below is exact
Value(num, den) == [kind |-> "value", num |-> num, den |-> den]

\* 0.0 / 0.0, and whatever is computed from it
NaN == [kind |-> "nan", num |-> 0, den |-> 1]

\* index out of range
Panic == [kind |-> "panic", num |-> 0, den |-> 1]

RECURSIVE SumPrices(_, _)
\* sum := 0.0; for i := 0; i < n; i++ { sum += prices[i] }
SumPrices(prices, n) ==
    IF n = 0 THEN 0 ELSE SumPrices(prices, n - 1) + prices[n]

RECURSIVE EMALoop(_, _, _, _)
\* for i := period; i < len(prices); i++ {
\*     ema = (prices[i]-ema)*multiplier + ema }
\* with multiplier = 2/(period+1); i counts from 1 here
EMALoop(prices, period, i, ema) ==
    IF i > Len(prices) THEN ema
    ELSE EMALoop(prices, period, i + 1,
                 Value(2 * (prices[i] * ema.den - ema.num)
                           + ema.num * (period + 1),
                       ema.den * (period + 1)))

CalculateEMA_NoLengthCheck(prices, period) ==
    IF Len(prices) = 0 \/ period <= 0 THEN Value(0, 1)
    ELSE LET n == IF Len(prices) < period THEN Len(prices) ELSE period
         IN  EMALoop(prices, period, n + 1, Value(SumPrices(prices, n), n))

CalculateEMA(prices, period) ==
    IF Len(prices) < period THEN Value(0, 1)
    ELSE IF Len(prices) = 0 THEN Value(0, 1)
    ELSE IF period < 0 THEN Panic       \* prices[period] in the second loop
    ELSE IF period = 0 THEN NaN         \* sum / float64(period) is 0/0
    ELSE EMALoop(prices, period, period + 1,
                 Value(SumPrices(prices, period), period))

IndFrame ==
    UNCHANGED <<coreVars, queueVars, scanVars, streamVars, cycleVars, netVars,
                supVars, exVars, lateVars>>

\* a caller invokes CalculateEMA on the arguments
CallCalculateEMA ==
    /\ emaOut = NoResult
    /\ emaOut' = CalculateEMA(emaIn.prices, emaIn.period)
    /\ UNCHANGED emaIn
    /\ IndFrame

MaxRsiPrices == 4
RsiPriceValues == {1, 2, 3}

RECURSIVE SumGains(_, _)
\* the sum of gains[0 .. n-1]: the rises among the first n price changes
SumGains(prices, n) ==
    IF n = 0 THEN 0
    ELSE SumGains(prices, n - 1)
         + (IF prices[n + 1] - prices[n] > 0 THEN prices[n + 1] - prices[n]
            ELSE 0)

RECURSIVE SumLosses(_, _)
\* the sum of losses[0 .. n-1]: the falls among the first n price changes
SumLosses(prices, n) ==
    IF n = 0 THEN 0
    ELSE SumLosses(prices, n - 1)
         + (IF prices[n + 1] - prices[n] > 0 THEN 0
            ELSE prices[n] - prices[n + 1])

CalculateRSI_NeutralWithoutLoss(prices, period) ==
    IF Len(prices) < period + 1 THEN Value(50, 1)
    ELSE IF period <= 0 THEN Value(100, 1)
    ELSE LET g == SumGains(prices, period)
             l == SumLosses(prices, period)
         IN  IF l = 0 THEN Value(50, 1) ELSE Value(100 * g, g + l)

\* with g and l the sums over the first period changes, avgGain = g/period,
\* avgLoss = l/period, rs = g/l and 100 - 100/(1 + rs) = 100 g / (g + l)
CalculateRSI(prices, period) ==
    IF Len(prices) < period + 1 THEN Value(50, 1)
    ELSE IF Len(prices) = 0 THEN Panic      \* make(.., 0, len(prices)-1)
    ELSE IF Len(prices) - 1 < period THEN Value(50, 1)
    ELSE IF period < 0 THEN Value(100, 1)   \* 0/period is -0, and -0 == 0
    ELSE IF period = 0 THEN NaN             \* 0/0; NaN == 0 is false
    ELSE LET g == SumGains(prices, period)
             l == SumLosses(prices, period)
         IN  IF l = 0 THEN Value(100, 1) ELSE Value(100 * g, g + l)

Is50(v) == v.kind = "value" /\ v.num = 50 * v.den

\* a caller invokes CalculateRSI on the arguments
CallCalculateRSI ==
    /\ rsiOut = NoResult
    /\ rsiOut' = CalculateRSI(rsiIn.prices, rsiIn.period)
    /\ UNCHANGED rsiIn
    /\ UNCHANGED <<decVars, tailVars>>
    /\ EarlyFrame

\* ------------------------------------------------------------- audit text
\* A string is the sequence of its bytes. A byte is an ASCII character, the
\* lead byte of a three-byte character, or a continuation byte.
MaxEventRunes == 4
MaxAuditEvents == 2
MaxCharsValues == (0 - 1) .. 6
DefaultOrderAuditEventMaxChars == 2000

AsciiBytes == {"x", ".", "[", "]"}
LeadByte == "E"
ContByte == "c"

\* the characters an event is made of: an ASCII letter and a Chinese one
EventRunes == {"x", "zh"}

RECURSIVE Encode(_)
Encode(runes) ==
    IF runes = <<>> THEN <<>>
    ELSE (IF Head(runes) = "zh" THEN <<LeadByte, ContByte, ContByte>>
          ELSE <<Head(runes)>>) \o Encode(Tail(runes))

\* "...[" + three Chinese characters + "]"
TruncatedSuffix ==
    <<".", ".", ".", "[">> \o Encode(<<"zh", "zh", "zh">>) \o <<"]">>

\* the number of characters of a string: a byte that starts no well-formed
\* character counts as one (it decodes to U+FFFD)
RECURSIVE RuneCount(_)
RuneCount(bytes) ==
    IF bytes = <<>> THEN 0
    ELSE IF /\ Head(bytes) = LeadByte
            /\ Len(bytes) >= 3
            /\ bytes[2] = ContByte /\ bytes[3] = ContByte
    THEN 1 + RuneCount(SubSeq(bytes, 4, Len(bytes)))
    ELSE 1 + RuneCount(Tail(bytes))

EffectiveMaxChars(cfgMaxChars) ==
    IF cfgMaxChars <= 0 THEN DefaultOrderAuditEventMaxChars ELSE cfgMaxChars

\* saveAudit: the string that is pushed for an event
TruncateEvent(eventStr, cfgMaxChars) ==
    LET maxChars == EffectiveMaxChars(cfgMaxChars)
    IN  IF Len(eventStr) > maxChars
        THEN SubSeq(eventStr, 1, maxChars) \o TruncatedSuffix
        ELSE eventStr

EventStrings ==
    {Encode(r) : r \in UNION {[1..n -> EventRunes] : n \in 0..MaxEventRunes}}

\* saveAudit called with an event; json.Marshal may fail, and then nothing is
\* stored
SaveAuditEvent ==
    /\ Len(auditTexts) < MaxAuditEvents
    /\ \E eventStr \in EventStrings, marshalErr \in BOOLEAN :
         IF marshalErr
         THEN UNCHANGED auditTexts
         ELSE auditTexts' =
                LTrim(<<TruncateEvent(eventStr, auditCfg)>> \o auditTexts,
                      OrderAuditMaxLen)
    /\ UNCHANGED auditCfg
    /\ UNCHANGED <<rsiVars, decVars, poolVars, ctxVars>>
    /\ EarlyFrame

\* ------------------------------------------------------- volatility pool
MaxPoolUpdates == 2
MaxPoolReads == 2
AIBatchSize == 2

NoKey == [members |-> {}, ttl |-> FALSE]

PoolFrame ==
    /\ UNCHANGED <<rsiVars, decVars, txtVars, ctxVars>>
    /\ EarlyFrame

\* the first poolSize symbols by volatility; the volatilities come from the
\* exchange, so any poolSize of the symbols can be the first ones
TopSymbols(allSymbols) ==
    LET poolSize == IF AIBatchSize * 10 > Cardinality(allSymbols)
                    THEN Cardinality(allSymbols) ELSE AIBatchSize * 10
    IN  {t \in SUBSET allSymbols : Cardinality(t) = poolSize}

\* UpdateVolatilityPool up to the pipeline: GetUSDTSymbols fails, or answers
\* some symbols, whose volatilities are computed and ranked
UpdateVolatilityPool ==
    /\ upc = "idle"
    /\ updates < MaxPoolUpdates
    /\ updates' = updates + 1
    /\ \/ /\ upc' = "idle"                 \* failed to get USDT symbols
          /\ UNCHANGED <<upTop, upPrev>>
       \/ \E allSymbols \in SUBSET Symbols, top \in SUBSET Symbols :
            /\ top \in TopSymbols(allSymbols)
            /\ upTop' = top
            /\ upPrev' = poolKey.members
            /\ upc' = "del"
    /\ UNCHANGED <<poolKey, poolReads>>
    /\ PoolFrame

\* the commands of the pipeline reach the server one after the other; the
\* server runs each of them at once and may serve other clients in between
PipeDel ==
    /\ upc = "del"
    /\ poolKey' = NoKey
    /\ upc' = IF upTop # {} THEN "sadd" ELSE "expire"
    /\ UNCHANGED <<upTop, upPrev, updates, poolReads>>
    /\ PoolFrame

PipeSAdd ==
    /\ upc = "sadd"
    /\ poolKey' = [poolKey EXCEPT !.members = @ \cup upTop]
    /\ upc' = "expire"
    /\ UNCHANGED <<upTop, upPrev, updates, poolReads>>
    /\ PoolFrame

\* EXPIRE sets the TTL of a key that exists; then the call returns, or panics
\* on symbolVolatility[0] when there was no symbol at all
PipeExpire ==
    /\ upc = "expire"
    /\ poolKey' = [poolKey EXCEPT !.ttl = poolKey.members # {}]
    /\ upc' = "idle"
    /\ UNCHANGED <<upTop, upPrev, updates, poolReads>>
    /\ PoolFrame

\* the key reaches its TTL
PoolExpire ==
    /\ poolKey.ttl
    /\ poolKey' = NoKey
    /\ UNCHANGED <<upc, upTop, upPrev, updates, poolReads>>
    /\ PoolFrame

\* getVolatilityPool: SMEMBERS, or nothing when the command fails
getVolatilityPool(redisErr) == IF redisErr THEN {} ELSE poolKey.members

\* GetSymbolPool: the volatility pool when it is not empty and forceFull is
\* not set, else the full pool of the exchange
GetSymbolPool ==
    /\ Len(poolReads) < MaxPoolReads
    /\ \E forceFull \in BOOLEAN, redisErr \in BOOLEAN :
         LET volatilityPool == IF forceFull THEN {}
                               ELSE getVolatilityPool(redisErr)
         IN  poolReads' = Append(poolReads,
                 [forceFull |-> forceFull, redisErr |-> redisErr,
                  seen |-> volatilityPool,
                  full |-> forceFull \/ volatilityPool = {},
                  writing |-> upc # "idle",
                  prev |-> upPrev, new |-> upTop])
    /\ UNCHANGED <<poolKey, upc, upTop, upPrev, updates>>
    /\ PoolFrame

\* ---------------------------------------------------------------- decision
MaxDecisions == 2
MaxRetries == 3
RetryWaitSec == 2

TradeActions == {"open_long", "open_short", "close_long", "close_short"}

\* parseAIResponse: allowedActions
AllowedActions == TradeActions \cup {"hold", "wait"}

\* what the advisor puts in "action"; "" stands for a missing or non-string
\* field
RawActions == {"open_long", " CLOSE_SHORT ", "hold", "wait", "buy", ""}

\* strings.ToLower(strings.TrimSpace(action))
TrimLower(raw) ==
    CASE raw = " CLOSE_SHORT " -> "close_short"
      [] OTHER -> raw

\* the advisor's answer to one ChatCompletion call: content that is not
\* empty, an error, or no error and empty content
ProviderResults == {"ok", "err", "empty"}

\* the content of a successful answer: text that is not JSON, or a JSON
\* object with an action
BadJSON == [json |-> FALSE, action |-> ""]
Contents == {BadJSON} \cup [json : {TRUE}, action : RawActions]

NoDecision ==
    [kind |-> "none", action |-> "", errNil |-> TRUE, signal |-> FALSE,
     calls |-> 0, sleeps |-> <<>>]

\* a TradingDecision and an error, after calls ChatCompletion calls
Returned(action, errNil, signal, made, sleeps) ==
    [kind |-> "returned", action |-> action, errNil |-> errNil,
     signal |-> signal, calls |-> made, sleeps |-> sleeps]

\* parseAIResponse
parseAIResponse(content) ==
    IF ~content.json THEN [errNil |-> FALSE, action |-> "", signal |-> FALSE]
    ELSE LET a == TrimLower(content.action)
             action == IF a \in AllowedActions THEN a ELSE "wait"
         IN  [errNil |-> TRUE, action |-> action,
              signal |-> action \in TradeActions]

\* MakeTradingDecision after the retry loop: aiResponse is set or not
AfterAttempts(got, lastErrNil, content, made, sleeps) ==
    IF ~got
    THEN IF lastErrNil            \* lastError.Error() on a nil error
         THEN [NoDecision EXCEPT !.kind = "panic", !.calls = made,
                                 !.sleeps = sleeps]
         ELSE Returned("wait", FALSE, FALSE, made, sleeps)
    ELSE LET d == parseAIResponse(content)
         IN  IF ~d.errNil THEN Returned("wait", FALSE, FALSE, made, sleeps)
             ELSE Returned(d.action, TRUE, d.signal, made, sleeps)

RECURSIVE Attempts(_, _, _, _, _, _)
\* for attempt := 0; attempt < maxRetries; attempt++ { ... }
Attempts(results, content, attempt, got, lastErrNil, sleeps) ==
    IF attempt >= MaxRetries
    THEN AfterAttempts(got, lastErrNil, content, attempt, sleeps)
    ELSE IF results[attempt + 1] = "ok"
    THEN AfterAttempts(TRUE, lastErrNil, content, attempt + 1, sleeps)
    ELSE Attempts(results, content, attempt + 1, got,
                  results[attempt + 1] = "empty",
                  IF attempt < MaxRetries - 1
                  THEN Append(sleeps, (attempt + 1) * RetryWaitSec)
                  ELSE sleeps)

\* MakeTradingDecision; trader tells whether the provider is set
MakeTradingDecision(trader, fmtOk, results, content) ==
    IF trader = "noprovider" THEN Returned("wait", TRUE, FALSE, 0, <<>>)
    ELSE IF ~fmtOk THEN Returned("wait", FALSE, FALSE, 0, <<>>)
    ELSE Attempts(results, content, 0, FALSE, TRUE, <<>>)

\* DefaultRuleStrategy.MakeDecision, and what the RuleStrategy interface
\* allows besides: an action and a signal or none
RuleDecisions ==
    {[action |-> "open_long", signal |-> TRUE],
     [action |-> "open_short", signal |-> TRUE],
     [action |-> "wait", signal |-> FALSE],
     [action |-> "close_long", signal |-> FALSE],
     [action |-> "hold", signal |-> TRUE]}

NoRule == [action |-> "", signal |-> FALSE]
NoResults == [i \in 1..MaxRetries |-> "err"]

IsTradeAction_Any(action) == TRUE

\* action == "open_long" || ... || action == "close_short"
IsTradeAction(action) == action \in TradeActions

\* ProcessSignal up to the test that guards the push: the decision taken,
\* whether the signal is pushed, and how the call ends
Decide(in) ==
    LET useRule == in.mode = "rule" \/ in.trader = "none"
        md == IF useRule THEN NoDecision
              ELSE MakeTradingDecision(in.trader, in.fmtOk, in.results,
                                       in.content)
        action == IF useRule THEN in.rule.action ELSE md.action
        signal == IF useRule THEN in.rule.signal ELSE md.signal
    IN  IF md.kind = "panic"
        THEN [md |-> md, action |-> "", signal |-> FALSE, push |-> FALSE,
              ret |-> "panic"]
        ELSE IF md.kind = "returned" /\ ~md.errNil
        THEN [md |-> md, action |-> "", signal |-> FALSE, push |-> FALSE,
              ret |-> "false"]
        ELSE IF IsTradeAction(action) /\ signal
        THEN [md |-> md, action |-> action, signal |-> signal,
              push |-> TRUE, ret |-> "true"]
        ELSE [md |-> md, action |-> action, signal |-> signal,
              push |-> FALSE, ret |-> "false"]

\* the inputs of one ProcessSignal call: the mode, the trader, the advisor's
\* answers, the rule strategy's decision
DecisionInputs ==
    [mode : {"rule"}, trader : {"ok"}, fmtOk : {TRUE}, results : {NoResults},
     content : {BadJSON}, rule : RuleDecisions]
    \cup [mode : {"ai"}, trader : {"none"}, fmtOk : {TRUE},
          results : {NoResults}, content : {BadJSON}, rule : RuleDecisions]
    \cup [mode : {"ai"}, trader : {"noprovider"}, fmtOk : {TRUE},
          results : {NoResults}, content : {BadJSON}, rule : {NoRule}]
    \cup [mode : {"ai"}, trader : {"ok"}, fmtOk : {FALSE},
          results : {NoResults}, content : {BadJSON}, rule : {NoRule}]
    \cup [mode : {"ai"}, trader : {"ok"}, fmtOk : {TRUE},
          results : [1..MaxRetries -> ProviderResults], content : Contents,
          rule : {NoRule}]

\* ProcessSignal on the market data of one symbol
ProcessMarketData ==
    /\ Len(psLog) < MaxDecisions
    /\ \E symbol \in Symbols \ cycleSyms, in \in DecisionInputs :
         LET out == Decide(in)
             item == [id |-> pushed + 1, action |-> out.action,
                      symbol |-> symbol,
                      signalId |-> SignalID(symbol, wallNano, 0)]
         IN  /\ psLog' = Append(psLog, [in |-> in, out |-> out,
                                        queued |-> Len(emitted)])
             /\ cycleSyms' = cycleSyms \cup {symbol}
             /\ IF out.push
                THEN /\ pushed' = pushed + 1
                     /\ emitted' = Append(emitted, item)
                     /\ signalHistory' = PushSignalHistory(signalHistory, item)
                     /\ tradeQueue' = PushTradeQueue(tradeQueue, item,
                                                     maxQueueSize)
                ELSE UNCHANGED <<pushed, emitted, signalHistory, tradeQueue>>
    /\ UNCHANGED <<maxQueueSize, popped, wallNano>>
    /\ UNCHANGED <<coreVars, scanVars, streamVars, cycleVars, netVars,
                   supVars, exVars, indVars, rsiVars, tailVars>>

\* -------------------------------------------------------------- supervisor
MaxSupTime == 90
SupTickSec == 10          \* the clock moves in steps of 10 s

ShutdownTimeoutSec == 30
ScanRetrySleepSec == 60
MinScanIntervalSec == 10
BRPopTimeoutSec == 10

Services == {"scanner", "bot", "web"}

NewService == [pc |-> "top", wake |-> 0, panics |-> 0, starts |-> 1, late |-> FALSE]

SupIdle ==
    /\ snow = 0
    /\ sup = [pc |-> "off", cancelled |-> FALSE, deadline |-> 0, how |-> ""]
    /\ svc = [t \in Services |-> [NewService EXCEPT !.pc = "off", !.starts = 0]]

SupFrame ==
    UNCHANGED <<coreVars, queueVars, scanVars, streamVars, cycleVars, netVars,
                moreVars>>

\* the goroutine has ended: it returned, or its recovery shim caught a panic;
\* either way the deferred wg.Done has run
Ended(t) == svc[t].pc \in {"returned", "recovered"}

Alive(t) == sup.pc \in {"serving", "draining"} /\ ~Ended(t)

CtxDone_Ignored(cancelled) == FALSE

\* the test  case <-ctx.Done()  at the top of a loop
CtxDone(cancelled) == cancelled

SupTick ==
    /\ sup.pc \in {"serving", "draining"}
    /\ snow < MaxSupTime
    /\ sup.pc = "draining" => snow < sup.deadline
    /\ snow' = snow + SupTickSec
    /\ UNCHANGED <<sup, svc>>
    /\ SupFrame

\* runScanner: top of the loop; a scan that fails sleeps 60 s, a scan that
\* works is followed by the cycle's work
ScannerTop ==
    /\ Alive("scanner")
    /\ svc["scanner"].pc = "top"
    /\ IF CtxDone(sup.cancelled)
       THEN svc' = [svc EXCEPT !["scanner"].pc = "returned"]
       ELSE \/ svc' = [svc EXCEPT !["scanner"].pc = "retrySleep",
                                  !["scanner"].wake = snow + ScanRetrySleepSec,
                                  !["scanner"].late = sup.cancelled]
            \/ svc' = [svc EXCEPT !["scanner"].pc = "cycle",
                                  !["scanner"].late = sup.cancelled]
    /\ UNCHANGED <<snow, sup>>
    /\ SupFrame

\* time.Sleep(60 s) is over
ScannerRetry ==
    /\ Alive("scanner")
    /\ svc["scanner"].pc = "retrySleep"
    /\ snow >= svc["scanner"].wake
    /\ svc' = [svc EXCEPT !["scanner"].pc = "top"]
    /\ UNCHANGED <<snow, sup>>
    /\ SupFrame

\* the range loop has drained the channel and the workers are done
ScannerCycleDone ==
    /\ Alive("scanner")
    /\ svc["scanner"].pc = "cycle"
    /\ svc' = [svc EXCEPT !["scanner"].pc = "intervalWait",
                          !["scanner"].wake = snow + MinScanIntervalSec]
    /\ UNCHANGED <<snow, sup>>
    /\ SupFrame

\* the select at the end of a cycle: ctx.Done() returns, the timer goes on
ScannerInterval ==
    /\ Alive("scanner")
    /\ svc["scanner"].pc = "intervalWait"
    /\ \/ /\ sup.cancelled
          /\ svc' = [svc EXCEPT !["scanner"].pc = "returned"]
       \/ /\ snow >= svc["scanner"].wake
          /\ svc' = [svc EXCEPT !["scanner"].pc = "top"]
    /\ UNCHANGED <<snow, sup>>
    /\ SupFrame

\* RunBot: top of the loop, then BRPOP with a 10 s timeout
BotTop ==
    /\ Alive("bot")
    /\ svc["bot"].pc = "top"
    /\ IF CtxDone(sup.cancelled)
       THEN svc' = [svc EXCEPT !["bot"].pc = "returned"]
       ELSE svc' = [svc EXCEPT !["bot"].pc = "brpop",
                               !["bot"].wake = snow + BRPopTimeoutSec,
                               !["bot"].late = sup.cancelled]
    /\ UNCHANGED <<snow, sup>>
    /\ SupFrame

\* BRPOP returns: a signal to execute, or an error (timeout, cancelled
\* context) that sends the loop back to its top
BotPop ==
    /\ Alive("bot")
    /\ svc["bot"].pc = "brpop"
    /\ \/ svc' = [svc EXCEPT !["bot"].pc = "execute"]
       \/ /\ sup.cancelled \/ snow >= svc["bot"].wake
          /\ svc' = [svc EXCEPT !["bot"].pc = "top"]
    /\ UNCHANGED <<snow, sup>>
    /\ SupFrame

\* the engine call for the popped signal has returned
BotExecuted ==
    /\ Alive("bot")
    /\ svc["bot"].pc = "execute"
    /\ svc' = [svc EXCEPT !["bot"].pc = "top"]
    /\ UNCHANGED <<snow, sup>>
    /\ SupFrame

\* the web server returns from Run(ctx) after the cancellation
WebReturn ==
    /\ Alive("web")
    /\ sup.cancelled
    /\ svc' = [svc EXCEPT !["web"].pc = "returned"]
    /\ UNCHANGED <<snow, sup>>
    /\ SupFrame

\* a panic inside a task: the deferred recover logs it, wg.Done runs, the
\* goroutine ends
ServicePanic(t) ==
    /\ Alive(t)
    /\ svc[t].panics = 0
    /\ svc' = [svc EXCEPT ![t].pc = "recovered", ![t].panics = @ + 1]
    /\ UNCHANGED <<snow, sup>>
    /\ SupFrame

\* SIGINT or SIGTERM arrives: cancel(), then the 30 s shutdown context
SupSignal ==
    /\ sup.pc = "serving"
    /\ snow + ShutdownTimeoutSec <= MaxSupTime
    /\ sup' = [sup EXCEPT !.pc = "draining", !.cancelled = TRUE,
                          !.deadline = snow + ShutdownTimeoutSec]
    /\ UNCHANGED <<snow, svc>>
    /\ SupFrame

\* the final select: done is closed once wg.Wait has returned, the shutdown
\* context expires at the deadline; main returns and the process is gone
SupExit ==
    /\ sup.pc = "draining"
    /\ \/ /\ \A t \in Services : Ended(t)
          /\ sup' = [sup EXCEPT !.pc = "exited", !.how = "stopped"]
       \/ /\ snow >= sup.deadline
          /\ sup' = [sup EXCEPT !.pc = "exited", !.how = "timeout"]
    /\ UNCHANGED <<snow, svc>>
    /\ SupFrame

\* ---------------------------------------------------- exchange HTTP client
MaxNetTime == 40
MaxLimiterTime == 12
MaxNetCalls == 2
TicksPerSec == 10     \* one tick is 100 ms; tokens are counted in 1/10 token

HTTPRate == 10
HTTPCapacity == 20
BackoffMaxLevel == 6
BackoffMaxSec == 60

Min(a, b) == IF a < b THEN a ELSE b
Max(a, b) == IF a > b THEN a ELSE b

NewRateLimiter(rate, capacity, t) ==
    [rate |-> rate, capacity |-> capacity * TicksPerSec,
     tokens |-> capacity * TicksPerSec, lastUpdate |-> t]

Acquire_Uncapped(rl, n, t) ==
    LET tk == rl.tokens + (t - rl.lastUpdate) * rl.rate
    IN  IF tk >= n * TicksPerSec
        THEN [ok |-> TRUE,
              rl |-> [rl EXCEPT !.tokens = tk - n * TicksPerSec, !.lastUpdate = t]]
        ELSE [ok |-> FALSE, rl |-> [rl EXCEPT !.tokens = tk, !.lastUpdate = t]]

\* RateLimiter.Acquire at time t: the answer and the limiter afterwards
Acquire(rl, n, t) ==
    LET elapsed == t - rl.lastUpdate
        newTokens == elapsed * rl.rate
        tk == Min(rl.capacity, rl.tokens + newTokens)
    IN  IF tk >= n * TicksPerSec
        THEN [ok |-> TRUE,
              rl |-> [rl EXCEPT !.tokens = tk - n * TicksPerSec, !.lastUpdate = t]]
        ELSE [ok |-> FALSE, rl |-> [rl EXCEPT !.tokens = tk, !.lastUpdate = t]]

NoAcq == [n |-> 0 - 1, before |-> 0, elapsed |-> 0, ok |-> FALSE]

NoBackoff == [exists |-> FALSE, until |-> 0, level |-> 0]

\* the test of WaitBackoff's loop
BackoffOver(bm, t) == ~bm.exists \/ t > bm.until

SetBackoff(bm, wait, t) ==
    IF wait <= 0 THEN bm
    ELSE IF ~bm.exists \/ t + wait > bm.until
         THEN [bm EXCEPT !.exists = TRUE, !.until = t + wait]
         ELSE bm

ResetBackoff(bm) == [bm EXCEPT !.exists = FALSE, !.until = 0, !.level = 0]

RECURSIVE Pow2(_)
Pow2(k) == IF k = 0 THEN 1 ELSE 2 * Pow2(k - 1)

NoRetryAfter == 0 - 1
RetryAfters == {NoRetryAfter, 2}      \* seconds of the Retry-After header

\* the wait OnRateLimited derives from the header or the level, before the
\* clamp and the jitter, in ticks
NominalWait(level, status, retryAfter) ==
    IF retryAfter # NoRetryAfter
    THEN retryAfter * TicksPerSec
    ELSE LET base == IF status # 418 THEN 1 ELSE 60
             exp == Min(level, BackoffMaxLevel)
         IN  Min(base * Pow2(exp), BackoffMaxSec) * TicksPerSec

\* BackoffManager.OnRateLimited: the wait in ticks and the manager afterwards
OnRateLimited(bm, status, retryAfter, t) ==
    LET level == bm.level
        waitSec == Max(1 * TicksPerSec,
                       Min(NominalWait(level, status, retryAfter),
                           BackoffMaxSec * TicksPerSec))
        jitter == Min(waitSec \div 10, 1 * TicksPerSec)
        bm1 == [bm EXCEPT !.level = Min(BackoffMaxLevel, level + 1)]
    IN  [wait |-> waitSec + jitter, bm |-> SetBackoff(bm1, waitSec + jitter, t)]

PublicCallers == {"scanA", "scanB"}
SignedCallers == {"engine"}
NetCallers == PublicCallers \cup SignedCallers

IdleCaller ==
    [pc |-> "idle", mustWait |-> 0, wake |-> 0, calls |-> 0, waited |-> FALSE]

NetIdle ==
    /\ xnow = 0
    /\ limiter = NewRateLimiter(HTTPRate, HTTPCapacity, 0)
    /\ lastAcq = NoAcq
    /\ backoff = NoBackoff
    /\ callers = [c \in NetCallers |-> IdleCaller]
    /\ sent = {}
    /\ windowEnd = 0

RestIdle ==
    /\ NetIdle
    /\ SupIdle
    /\ MoreIdle

NetFrame ==
    UNCHANGED <<coreVars, queueVars, scanVars, streamVars, cycleVars, supVars,
                moreVars>>

\* the goroutine has a step to take now, it neither sleeps nor
\* waits for the network
Runnable(c) == callers[c].pc \in {"backoff", "limiter"} /\ callers[c].wake <= xnow

\* the instants after xnow at which something changes by itself: a sleeping
\* goroutine wakes up, the backoff window is over, the announced wait has
\* elapsed
Deadlines ==
    {d \in {callers[c].wake : c \in NetCallers}
          \cup {windowEnd}
          \cup (IF backoff.exists THEN {backoff.until + 1} ELSE {}) : d > xnow}

\* the clock moves to the next such instant, when every goroutine sleeps,
\* waits or is idle; calls begin and responses arrive at these instants
Elapse ==
    /\ \A c \in NetCallers : ~Runnable(c)
    /\ Deadlines # {}
    /\ LET next == CHOOSE d \in Deadlines : \A e \in Deadlines : d <= e
       IN  /\ next <= MaxNetTime
           /\ xnow' = next
           /\ windowEnd' = IF windowEnd > next THEN windowEnd ELSE 0
    /\ UNCHANGED <<limiter, lastAcq, backoff, callers, sent>>
    /\ NetFrame

\* the clock moves by one tick
NetTick ==
    /\ xnow < MaxLimiterTime
    /\ xnow' = xnow + 1
    /\ UNCHANGED <<limiter, lastAcq, backoff, callers, sent, windowEnd>>
    /\ NetFrame

\* a public call enters FetchJSON; mustWait remembers the end of the window
\* that is open at this moment
FetchBegin(c) ==
    /\ c \in PublicCallers
    /\ callers[c].pc = "idle"
    /\ callers[c].calls < MaxNetCalls
    /\ callers' = [callers EXCEPT ![c] =
           [@ EXCEPT !.pc = "backoff", !.wake = xnow, !.waited = FALSE,
                     !.mustWait = IF xnow < windowEnd THEN windowEnd ELSE 0]]
    /\ UNCHANGED <<xnow, limiter, lastAcq, backoff, sent, windowEnd>>
    /\ NetFrame

\* one round of WaitBackoff's loop: return, or sleep for at most a second (a
\* sleep of zero spins until the clock has moved)
FetchWaitBackoff(c) ==
    /\ Runnable(c)
    /\ callers[c].pc = "backoff"
    /\ callers' = [callers EXCEPT ![c] =
           IF BackoffOver(backoff, xnow)
           THEN [@ EXCEPT !.pc = "limiter", !.wake = xnow, !.waited = TRUE]
           ELSE [@ EXCEPT !.wake =
                    xnow + Max(1, Min(backoff.until - xnow, TicksPerSec))]]
    /\ UNCHANGED <<xnow, limiter, lastAcq, backoff, sent, windowEnd>>
    /\ NetFrame

\* one round of RateLimiter.Wait(1): with a token the request is built and
\* handed to the transport, without one the caller sleeps (at most 100 ms at
\* this rate)
FetchLimiter(c) ==
    /\ Runnable(c)
    /\ callers[c].pc = "limiter"
    /\ LET r == Acquire(limiter, 1, xnow)
       IN  /\ limiter' = r.rl
           /\ IF r.ok
              THEN /\ callers' = [callers EXCEPT ![c] = [@ EXCEPT !.pc = "inflight"]]
                   /\ sent' = sent \cup
                          {[caller |-> c, waited |-> callers[c].waited,
                            token |-> TRUE,
                            early |-> xnow < callers[c].mustWait]}
              ELSE /\ callers' = [callers EXCEPT ![c] = [@ EXCEPT !.wake = xnow + 1]]
                   /\ UNCHANGED sent
    /\ UNCHANGED <<xnow, lastAcq, backoff, windowEnd>>
    /\ NetFrame

\* the response of a public call: 200 resets the backoff, 429 and 418 open a
\* window, anything else (another status, a transport error) changes nothing
FetchResponse(c) ==
    /\ callers[c].pc = "inflight"
    /\ \E status \in {200, 429, 418, 500}, retryAfter \in RetryAfters :
         /\ status \notin {429, 418} => retryAfter = NoRetryAfter
         /\ IF status = 200
            THEN /\ backoff' = ResetBackoff(backoff)
                 /\ UNCHANGED windowEnd
            ELSE IF status \in {429, 418}
            THEN /\ backoff' = OnRateLimited(backoff, status, retryAfter, xnow).bm
                 /\ windowEnd' =
                        Max(windowEnd,
                            xnow + NominalWait(backoff.level, status, retryAfter))
            ELSE UNCHANGED <<backoff, windowEnd>>
    /\ callers' = [callers EXCEPT ![c] =
           [@ EXCEPT !.pc = "idle", !.calls = @ + 1]]
    /\ UNCHANGED <<xnow, limiter, lastAcq, sent>>
    /\ NetFrame

\* a signed call outside DRY_RUN (PlaceOrder, CancelOrder, GetOrder,
\* GetOpenOrders, GetPositions): the request is built and handed to the
\* transport; no status changes the backoff manager
SignedRequest(c) ==
    /\ c \in SignedCallers
    /\ callers[c].calls < MaxNetCalls
    /\ sent' = sent \cup
           {[caller |-> c, waited |-> FALSE, token |-> FALSE,
             early |-> xnow < windowEnd]}
    /\ callers' = [callers EXCEPT ![c] = [@ EXCEPT !.calls = @ + 1]]
    /\ UNCHANGED <<xnow, limiter, lastAcq, backoff, windowEnd>>
    /\ NetFrame

\* Acquire(n) called directly on a limiter
CallAcquire ==
    /\ \E n \in 0..3 :
         LET r == Acquire(limiter, n, xnow)
         IN  /\ limiter' = r.rl
             /\ lastAcq' = [n |-> n, before |-> limiter.tokens,
                            elapsed |-> xnow - limiter.lastUpdate, ok |-> r.ok]
    /\ UNCHANGED <<xnow, backoff, callers, sent, windowEnd>>
    /\ NetFrame

\* ------------------------------------------------------------ specification
AuxIdle ==
    /\ QueueIdle
    /\ ScanIdle
    /\ StreamIdle
    /\ CycleIdle
    /\ RestIdle

InitStore ==
    /\ now = 0
    /\ locks = [k \in LockKeys |-> NoLock]
    /\ dedupe = {}
    /\ audit = <<>>
    /\ tradeHistory = <<>>
    /\ pc = [p \in Procs |-> "idle"]
    /\ cur = [p \in Procs |-> IdleCur]
    /\ last = [p \in Procs |-> NoCall]
    /\ checks = {}
    /\ nextOrder = 1
    /\ calls = 0
    /\ gpc = "idle"
    /\ gl = IdleGuard
    /\ passLog = <<>>
    /\ opened = {}
    /\ savedFor = {}
    /\ AuxIdle

\* lock scenarios: the account may already hold a BTCUSDT long.  Lock
\* behaviour depends on relative time only, so idle stretches (no call in
\* flight, no lock key alive) are skipped.
Busy ==
    \/ \E p \in Procs : pc[p] # "idle"
    \/ \E k \in LockKeys : locks[k] # NoLock

Init ==
    /\ InitStore
    /\ orders = {}
    /\ protection = [k \in Symbols \X PosSides |-> NoProt]
    /\ \E z \in {0, 5} :
         positions = [k \in Symbols \X PosSides |->
                        IF k = <<"BTCUSDT", "LONG">> THEN z ELSE 0]

Next ==
    \/ \E p \in Procs, s \in LockSignals : PlaceBegin(p, s)
    \/ \E p \in Procs, s \in LockSignals : CloseBegin(p, s)
    \/ \E p \in Procs : PlaceOrderError(p)
    \/ \E p \in Procs : PlaceOrderOk(p)
    \/ \E p \in Procs : confirmOrder(p)
    \/ \E p \in Procs : ClosePlaceError(p)
    \/ \E p \in Procs : ClosePlaceOk(p)
    \/ \E o \in orders : ExchFill(o)
    \/ ExpireKey
    \/ Busy /\ Tick(MaxTime)

Spec == Init /\ [][Next]_vars

\* the context the bot hands to the engine is cancelled at some moment, while
\* BTCUSDT signals are executed
CancelCtx ==
    /\ ~engineCtxDone
    /\ engineCtxDone' = TRUE
    /\ UNCHANGED <<rsiVars, decVars, txtVars, poolVars>>
    /\ EarlyFrame

CancelSignals == {s \in LockSignals : s.symbol = "BTCUSDT"}

NextCancel ==
    \/ \E p \in Procs, s \in CancelSignals : PlaceBegin(p, s)
    \/ \E p \in Procs, s \in CancelSignals : CloseBegin(p, s)
    \/ \E p \in Procs : PlaceOrderError(p)
    \/ \E p \in Procs : PlaceOrderOk(p)
    \/ \E p \in Procs : confirmOrder(p)
    \/ \E p \in Procs : ClosePlaceError(p)
    \/ \E p \in Procs : ClosePlaceOk(p)
    \/ \E o \in orders : ExchFill(o)
    \/ ExpireKey
    \/ Busy /\ Tick(MaxTime)
    \/ CancelCtx

SpecCancel == Init /\ [][NextCancel]_vars

\* dedupe scenarios: identical and near-identical open signals, short horizon
InitDedupe ==
    /\ InitStore
    /\ orders = {}
    /\ protection = [k \in Symbols \X PosSides |-> NoProt]
    /\ positions = [k \in Symbols \X PosSides |-> 0]

NextDedupe ==
    \/ \E p \in Procs, s \in DedupeSignals : PlaceBegin(p, s)
    \/ \E p \in Procs : PlaceOrderError(p)
    \/ \E p \in Procs : PlaceOrderOk(p)
    \/ \E p \in Procs : confirmOrder(p)
    \/ \E o \in orders : ExchFill(o)
    \/ ExpireKey
    \/ Tick(MaxDedupeTime)

SpecDedupe == InitDedupe /\ [][NextDedupe]_vars

\* guard scenarios: the account holds a BTCUSDT long, with or without an
\* ETHUSDT short, or nothing; the store holds the Protection records the
\* engine wrote for them (take_profit_2 is always 0 in what the engine writes)
MaxGuardTime == 2

GuardSignals == {Sig("BTCUSDT", "open_long", "long", 20, 10, 40, 4)}

SavedBefore(pos) ==
    [k \in PosKeys |->
        IF k = <<"BTCUSDT", "LONG">>
        THEN [sl |-> 10, tp1 |-> 40, tp2 |-> 0, ratio |-> TP1PartialRatioPct,
              exp |-> ProtectionTTLSec, set |-> TRUE]
        ELSE IF k = <<"ETHUSDT", "SHORT">> /\ pos[k] > 0
        THEN [sl |-> 40, tp1 |-> 10, tp2 |-> 0, ratio |-> TP1PartialRatioPct,
              exp |-> ProtectionTTLSec, set |-> TRUE]
        ELSE NoProt]

InitGuard ==
    /\ InitStore
    /\ orders = {}
    /\ \E held \in {{}, {<<"BTCUSDT", "LONG">>},
                     {<<"BTCUSDT", "LONG">>, <<"ETHUSDT", "SHORT">>}} :
         /\ positions = [k \in PosKeys |-> IF k \in held THEN 4 ELSE 0]
         /\ protection = SavedBefore(positions)

NextGuard ==
    \/ GuardBegin
    \/ \E pos \in gl.todo : GuardReconcile(pos)
    \/ GuardScan
    \/ \E k \in gl.keys : GuardCleanupKey(k)
    \/ GuardEnd
    \/ \E o \in orders : ExchTrigger(o)

SpecGuard == InitGuard /\ [][NextGuard]_vars

\* engine and guard together: the account holds an ETHUSDT short with its
\* Protection record while BTCUSDT open signals are executed
InitProtect ==
    /\ InitStore
    /\ orders = {}
    /\ positions = [k \in PosKeys |->
                      IF k = <<"ETHUSDT", "SHORT">> THEN 4 ELSE 0]
    /\ protection = [k \in PosKeys |->
                       IF k = <<"ETHUSDT", "SHORT">>
                       THEN SavedBefore(positions)[k] ELSE NoProt]

NextProtect ==
    \/ GuardBegin
    \/ \E pos \in gl.todo : GuardReconcile(pos)
    \/ GuardScan
    \/ \E k \in gl.keys : GuardCleanupKey(k)
    \/ GuardEnd
    \/ \E s \in GuardSignals : calls = 0 /\ PlaceBegin("p1", s)
    \/ \E p \in Procs : PlaceOrderError(p)
    \/ \E p \in Procs : PlaceOrderOk(p)
    \/ \E p \in Procs : confirmOrder(p)
    \/ \E o \in orders : ExchFill(o)
    \/ \E o \in orders, st \in {"CANCELED", "REJECTED"} : ExchCancel(o, st)
    \/ Busy /\ Tick(MaxGuardTime)

SpecProtect == InitProtect /\ [][NextProtect]_vars

\* engine and guard on an empty account: one BTCUSDT open signal with a stop
\* loss, with or without a take profit, is executed while the guard makes its
\* passes
StopLossSignals ==
    {Sig("BTCUSDT", "open_long", "long", 20, 10, tp, 4) : tp \in {0, 40}}

InitStopLoss ==
    /\ InitStore
    /\ orders = {}
    /\ positions = [k \in PosKeys |-> 0]
    /\ protection = [k \in PosKeys |-> NoProt]

NextStopLoss ==
    \/ GuardBegin
    \/ \E pos \in gl.todo : GuardReconcile(pos)
    \/ GuardScan
    \/ \E k \in gl.keys : GuardCleanupKey(k)
    \/ GuardEnd
    \/ \E s \in StopLossSignals : calls = 0 /\ PlaceBegin("p1", s)
    \/ \E p \in Procs : PlaceOrderError(p)
    \/ \E p \in Procs : PlaceOrderOk(p)
    \/ \E p \in Procs : confirmOrder(p)
    \/ \E o \in orders : ExchFill(o)
    \/ Busy /\ Tick(MaxGuardTime)

SpecStopLoss == InitStopLoss /\ [][NextStopLoss]_vars

\* the guard is started again and again by its ticker and every pass runs to
\* its end; the engine call goes on until it returns; time passes. No fill is
\* promised.
SpecStopLossFair ==
    /\ SpecStopLoss
    /\ WF_vars(GuardBegin)
    /\ WF_vars(\E pos \in gl.todo : GuardReconcile(pos))
    /\ WF_vars(GuardScan)
    /\ WF_vars(\E k \in gl.keys : GuardCleanupKey(k))
    /\ WF_vars(GuardEnd)
    /\ WF_vars(\E p \in Procs : PlaceOrderError(p) \/ PlaceOrderOk(p))
    /\ WF_vars(\E p \in Procs : confirmOrder(p))
    /\ WF_vars(Busy /\ Tick(MaxGuardTime))

\* one guard pass over a BTCUSDT long of any of ReconSizes, with or without
\* an ETHUSDT short: the BTCUSDT Protection may be missing or invalid, have
\* a TP2 and any stored tp1_ratio (percent), and the guard lock of the
\* position may be held by the guard of another bot instance
ReconSizes == {1, 3, 4}

RatioPcts == {0 - 50, 0, 10, 50, 100, 150}

OtherGuardToken == 0 - 99

InitReconcile ==
    /\ now = 0
    /\ dedupe = {}
    /\ audit = <<>>
    /\ tradeHistory = <<>>
    /\ orders = {}
    /\ pc = [p \in Procs |-> "idle"]
    /\ cur = [p \in Procs |-> IdleCur]
    /\ last = [p \in Procs |-> NoCall]
    /\ checks = {}
    /\ nextOrder = 1
    /\ calls = 0
    /\ gpc = "idle"
    /\ gl = IdleGuard
    /\ passLog = <<>>
    /\ opened = {}
    /\ savedFor = {}
    /\ AuxIdle
    /\ \E size \in ReconSizes, eth \in {0, 4} :
         positions = [k \in PosKeys |->
                        IF k = <<"BTCUSDT", "LONG">> THEN size
                        ELSE IF k = <<"ETHUSDT", "SHORT">> THEN eth ELSE 0]
    /\ \E stopLoss \in {0, 10}, takeProfit2 \in {0, 60}, ratio \in RatioPcts,
          stored \in BOOLEAN :
         protection = [k \in PosKeys |->
             IF k = <<"BTCUSDT", "LONG">> /\ stored
             THEN [sl |-> stopLoss, tp1 |-> 40, tp2 |-> takeProfit2,
                   ratio |-> ratio, exp |-> ProtectionTTLSec, set |-> TRUE]
             ELSE IF k = <<"ETHUSDT", "SHORT">> /\ positions[k] > 0
             THEN SavedBefore(positions)[k]
             ELSE NoProt]
    /\ \E heldElsewhere \in BOOLEAN :
         locks = [k \in LockKeys |->
             IF heldElsewhere /\ k = GuardLockKey("BTCUSDT", "LONG")
             THEN [token |-> OtherGuardToken, exp |-> GuardLockTTLSec]
             ELSE NoLock]

NextReconcile ==
    \/ Len(passLog) = 0 /\ GuardBegin
    \/ \E pos \in gl.todo : GuardReconcile(pos)
    \/ GuardScan
    \/ \E k \in gl.keys : GuardCleanupKey(k)
    \/ GuardEnd

SpecReconcile == InitReconcile /\ [][NextReconcile]_vars

\* no engine call, no guard pass, empty account
CoreIdle ==
    /\ now = 0
    /\ locks = [k \in LockKeys |-> NoLock]
    /\ dedupe = {}
    /\ protection = [k \in PosKeys |-> NoProt]
    /\ audit = <<>>
    /\ tradeHistory = <<>>
    /\ orders = {}
    /\ positions = [k \in PosKeys |-> 0]
    /\ pc = [p \in Procs |-> "idle"]
    /\ cur = [p \in Procs |-> IdleCur]
    /\ last = [p \in Procs |-> NoCall]
    /\ checks = {}
    /\ nextOrder = 1
    /\ calls = 0
    /\ gpc = "idle"
    /\ gl = IdleGuard
    /\ passLog = <<>>
    /\ opened = {}
    /\ savedFor = {}

\* one ScanSymbol call for every combination of fetch results
InitScan ==
    /\ CoreIdle
    /\ QueueIdle
    /\ scanIn \in [symbol : ScanSymbolNames,
                   ohlcv : [DOMAIN Timeframes -> FetchOutcomes],
                   ticker : {"ok", "err"}, funding : {"ok", "err"},
                   openInterest : {"ok", "err"}]
    /\ scanOut = NoScanOut
    /\ StreamIdle
    /\ CycleIdle
    /\ RestIdle

NextScan == CallScanSymbol

SpecScan == InitScan /\ [][NextScan]_vars

\* ScanMarketStream has returned its channel: pools of 1..MaxPool symbols
InitStream ==
    /\ CoreIdle
    /\ QueueIdle
    /\ ScanIdle
    /\ streamCfg \in [pool : 1..MaxPool, conc : ScanConcurrencies]
    /\ ctxDone = FALSE
    /\ spawner = [state |-> "loop", next |-> 1]
    /\ task = [t \in Tasks |-> "none"]
    /\ resultChan = [buf |-> <<>>, closed |-> FALSE]
    /\ consumer = [got |-> 0, done |-> FALSE]
    /\ panicked = FALSE
    /\ CycleIdle
    /\ RestIdle

NextStream ==
    \/ Spawn
    \/ Join
    \/ \E t \in Tasks : TaskAcquire(t)
    \/ \E t \in Tasks : TaskScan(t)
    \/ \E t \in Tasks : TaskSend(t)
    \/ Recv
    \/ RangeEnd
    \/ Cancel

SpecStream == InitStream /\ [][NextStream]_vars

\* every goroutine that can take a step eventually takes one; nothing is
\* assumed about cancellation
SpecStreamFair ==
    /\ InitStream
    /\ [][NextStream]_vars
    /\ WF_vars(Spawn)
    /\ WF_vars(Join)
    /\ \A t \in Tasks : WF_vars(TaskAcquire(t))
    /\ \A t \in Tasks : WF_vars(TaskScan(t))
    /\ \A t \in Tasks : WF_vars(TaskSend(t))
    /\ WF_vars(Recv)
    /\ WF_vars(RangeEnd)

\* the scanner loop from its start
InitCycle ==
    /\ CoreIdle
    /\ QueueIdle
    /\ ScanIdle
    /\ StreamIdle
    /\ cycleCfg \in [forceFull : BOOLEAN, batch : BatchSizes]
    /\ scannerPc = "top"
    /\ forceFullNext = FALSE
    /\ cyc = IdleCyc
    /\ requests = <<>>
    /\ cycles = <<>>
    /\ RestIdle

NextCycle ==
    \/ CycleBegin
    \/ CycleItem
    \/ CycleWorker
    \/ CycleEnd

SpecCycle == InitCycle /\ [][NextCycle]_vars

NetOthersIdle ==
    /\ CoreIdle
    /\ QueueIdle
    /\ ScanIdle
    /\ StreamIdle
    /\ CycleIdle
    /\ SupIdle
    /\ MoreIdle

\* the HTTP client used by two scanning goroutines and the engine; the bucket
\* is full or has just been emptied
InitClient ==
    /\ NetOthersIdle
    /\ xnow = 0
    /\ \E tk \in {0, HTTPCapacity * TicksPerSec} :
         limiter = [NewRateLimiter(HTTPRate, HTTPCapacity, 0) EXCEPT !.tokens = tk]
    /\ lastAcq = NoAcq
    /\ backoff = NoBackoff
    /\ callers = [c \in NetCallers |-> IdleCaller]
    /\ sent = {}
    /\ windowEnd = 0

NextClient ==
    \/ Elapse
    \/ \E c \in NetCallers :
         \/ FetchBegin(c)
         \/ FetchWaitBackoff(c)
         \/ FetchLimiter(c)
         \/ FetchResponse(c)
         \/ SignedRequest(c)

SpecClient == InitClient /\ [][NextClient]_vars

\* a token bucket of any small rate and capacity, asked for 0..3 tokens at any
\* time
InitLimiter ==
    /\ NetOthersIdle
    /\ xnow = 0
    /\ limiter \in {NewRateLimiter(r, c, 0) : r \in {1, 3, 10}, c \in {0, 1, 2}}
    /\ lastAcq = NoAcq
    /\ backoff = NoBackoff
    /\ callers = [c \in NetCallers |-> IdleCaller]
    /\ sent = {}
    /\ windowEnd = 0

NextLimiter ==
    \/ NetTick
    \/ CallAcquire

SpecLimiter == InitLimiter /\ [][NextLimiter]_vars

\* main has started its tasks
InitSup ==
    /\ CoreIdle
    /\ QueueIdle
    /\ ScanIdle
    /\ StreamIdle
    /\ CycleIdle
    /\ NetIdle
    /\ MoreIdle
    /\ snow = 0
    /\ sup = [pc |-> "serving", cancelled |-> FALSE, deadline |-> 0, how |-> ""]
    /\ svc = [t \in Services |-> NewService]

NextSup ==
    \/ SupTick
    \/ ScannerTop
    \/ ScannerRetry
    \/ ScannerCycleDone
    \/ ScannerInterval
    \/ BotTop
    \/ BotPop
    \/ BotExecuted
    \/ WebReturn
    \/ \E t \in Services : ServicePanic(t)
    \/ SupSignal
    \/ SupExit

ExOthersIdle ==
    /\ CoreIdle
    /\ QueueIdle
    /\ ScanIdle
    /\ StreamIdle
    /\ CycleIdle
    /\ NetIdle
    /\ SupIdle

\* the order methods called in any order, with DRY_RUN on or off and with or
\* without API keys
InitExchange ==
    /\ ExOthersIdle
    /\ IndIdle
    /\ LateIdle
    /\ exCfg \in [dryRun : BOOLEAN, apiKeys : BOOLEAN]
    /\ exNano = NanoEpoch
    /\ venue = <<>>
    /\ replies = <<>>

NextExchange ==
    \/ CallPlaceOrder
    \/ CallCancelOrder
    \/ CallGetOrder
    \/ CallGetOpenOrders
    \/ CallGetPositions

SpecExchange == InitExchange /\ [][NextExchange]_vars

\* CalculateEMA applied to price series of up to MaxPrices values and to
\* periods from -1 to MaxPeriod
InitIndicators ==
    /\ ExOthersIdle
    /\ ExIdle
    /\ LateIdle
    /\ emaIn \in [prices : UNION {[1..n -> PriceValues] : n \in 0..MaxPrices},
                  period : Periods]
    /\ emaOut = NoResult

NextIndicators == CallCalculateEMA

SpecIndicators == InitIndicators /\ [][NextIndicators]_vars

\* CalculateRSI applied to series of up to MaxRsiPrices positive prices
InitRSI ==
    /\ ExOthersIdle
    /\ ExIdle
    /\ IndIdle
    /\ DecIdle
    /\ TailIdle
    /\ rsiIn \in [prices : UNION {[1..n -> RsiPriceValues] :
                                    n \in 0..MaxRsiPrices},
                  period : Periods]
    /\ rsiOut = NoResult

NextRSI == CallCalculateRSI

SpecRSI == InitRSI /\ [][NextRSI]_vars

\* saveAudit called with events of up to MaxEventRunes characters under every
\* configured limit of MaxCharsValues
InitAuditText ==
    /\ ExOthersIdle
    /\ ExIdle
    /\ IndIdle
    /\ RsiIdle
    /\ DecIdle
    /\ PoolIdle
    /\ CtxIdle
    /\ auditCfg \in MaxCharsValues
    /\ auditTexts = <<>>

NextAuditText == SaveAuditEvent

SpecAuditText == InitAuditText /\ [][NextAuditText]_vars

\* one goroutine updates the volatility pool while others read the symbol
\* pool; the key holds nothing or what an earlier update left
InitPool ==
    /\ ExOthersIdle
    /\ ExIdle
    /\ IndIdle
    /\ RsiIdle
    /\ DecIdle
    /\ TxtIdle
    /\ CtxIdle
    /\ \E m \in SUBSET Symbols :
         poolKey = [members |-> m, ttl |-> m # {}]
    /\ upc = "idle"
    /\ upTop = {}
    /\ upPrev = {}
    /\ updates = 0
    /\ poolReads = <<>>

NextPool ==
    \/ UpdateVolatilityPool
    \/ PipeDel
    \/ PipeSAdd
    \/ PipeExpire
    \/ PoolExpire
    \/ GetSymbolPool

SpecPool == InitPool /\ [][NextPool]_vars

\* ProcessSignal called for the market data of successive symbols, in either
\* mode, the advisor answering each attempt in any way
InitDecision ==
    /\ ExOthersIdle
    /\ MoreIdle

NextDecision == ProcessMarketData

SpecDecision == InitDecision /\ [][NextDecision]_vars

SpecSup == InitSup /\ [][NextSup]_vars

\* time passes, every goroutine that can take a step takes it in the end; no
\* signal, no panic and no return of the web server is promised
SpecSupFair ==
    /\ SpecSup
    /\ WF_vars(SupTick)
    /\ WF_vars(ScannerTop)
    /\ WF_vars(ScannerRetry)
    /\ WF_vars(ScannerCycleDone)
    /\ WF_vars(ScannerInterval)
    /\ WF_vars(BotTop)
    /\ WF_vars(BotPop)
    /\ WF_vars(BotExecuted)
    /\ WF_vars(SupExit)

\* queue scenarios: decision workers push, the execution loop pops
InitQueue ==
    /\ CoreIdle
    /\ tradeQueue = <<>>
    /\ maxQueueSize \in QueueSizes
    /\ pushed = 0
    /\ popped = <<>>
    /\ signalHistory = <<>>
    /\ wallNano = NanoEpoch
    /\ cycleSyms = {}
    /\ emitted = <<>>
    /\ ScanIdle
    /\ StreamIdle
    /\ CycleIdle
    /\ RestIdle

NextQueue ==
    \/ \E sym \in Symbols, a \in QueueActions, ts \in SignalTimestamps :
         ProcessSignal(sym, a, ts)
    \/ RunBot
    \/ WallTick

SpecQueue == InitQueue /\ [][NextQueue]_vars

\* the four bounded lists and the calls that push onto them
NextLists ==
    \/ \E sym \in Symbols : ProcessSignal(sym, "open_long", 0)
    \/ WallTick
    \/ CallSaveAudit
    \/ CallPushTradeHistory

SpecLists == InitQueue /\ [][NextLists]_vars

\* ------------------------------------------------------------------ claims
LockExp(p) == cur[p].t0 + LockTTLSec

\* C1: for every symbol at most one PlaceOrderFromSignal or
\* ClosePositionFromAction is between its lock acquisition and its return
C1_OneInFlightPerSymbol ==
    \A s \in Symbols : Cardinality(InFlight(s)) <= 1

SameTuple(a, b) ==
    /\ a.symbol = b.symbol
    /\ a.action = b.action
    /\ a.side = b.side
    /\ a.price8 = b.price8

\* C2: per (symbol, action, side, entry to 8 decimals, window) at most one
\* invocation passes the dedupe check and goes on to place an order; every
\* other one with that tuple in that window returns the duplicate failure
C2_AtMostOncePerWindow ==
    /\ \A a, b \in checks :
          a.key = b.key /\ a.id # b.id => ~(a.ok /\ b.ok)
    /\ \A b \in checks :
          (~b.ok /\ b.t \div OrderDedupeWindow = now \div OrderDedupeWindow)
              => \E a \in checks : a.ok /\ a.key = b.key /\ a.id < b.id
    /\ \A c \in checks, p \in Procs :
          (last[p].id = c.id => (last[p].result = "duplicate" <=> ~c.ok))
    /\ \A c \in checks, p \in Procs :
          (cur[p].id = c.id => c.ok)

\* C3: a release never removes a lock stored under another token: a call in
\* flight whose lock has not reached its expiry still finds its own token
\* under the key, whatever releases other calls have run
C3_ReleaseOnlyOwnLock ==
    \A p \in Procs :
        pc[p] \in LockedPcs /\ now < LockExp(p) =>
            locks[ExecLockKey(cur[p].sig.symbol)].token = cur[p].token

\* a call released after its lock had expired and been re-acquired, and the
\* new holder still holds the key
C3_Witness ==
    \E p, q \in Procs :
        /\ last[p].atRelease = "other"
        /\ pc[q] \in LockedPcs
        /\ cur[q].sig.symbol = last[p].sig.symbol
        /\ locks[ExecLockKey(cur[q].sig.symbol)].token = cur[q].token

\* a pass during which nothing but the guard acted and no call failed
Undisturbed(r) ==
    /\ r.clean
    /\ r.pos0 = r.pos1
    /\ ~r.busy0
    /\ r.calls0 = r.calls1

\* two such passes in a row with nothing changed in between or since
TwoQuietPasses ==
    /\ Len(passLog) >= 2
    /\ gpc = "idle"
    /\ Undisturbed(passLog[1])
    /\ Undisturbed(passLog[2])
    /\ passLog[2].pos0 = passLog[1].pos1
    /\ passLog[2].prot0 = passLog[1].prot1
    /\ passLog[2].calls0 = passLog[1].calls1

\* C4: an open position with stop_loss > 0 and take_profit_1 > 0 in its
\* Protection, unchanged over two guard passes, then has a reduce-only
\* stop-loss and a reduce-only TP1 order on the exchange, and the guard's own
\* hasSL and hasTP1 are true for it
C4_ProtectedWithinTwoPasses ==
    \A k \in PosKeys :
        /\ TwoQuietPasses
        /\ positions = passLog[2].pos1
        /\ protection = passLog[2].prot1
        /\ passLog[1].pos0[k] > 0
        /\ passLog[1].prot0[k] = protection[k]
        /\ protection[k].set
        /\ protection[k].sl > 0
        /\ protection[k].tp1 > 0
        => /\ \E o \in ProtectiveOrders(k) :
                 isStopLossOrder(o) /\ o.stopPrice = protection[k].sl
           /\ \E o \in ProtectiveOrders(k) :
                 isTakeProfitOrder(o) /\ o.stopPrice = protection[k].tp1
           /\ GuardHasSL(GetOpenOrders(k[1]), ToLower(k[2]))
           /\ GuardHasTP1(GetOpenOrders(k[1]), ToLower(k[2]),
                          protection[k].tp1, protection[k].tp2)

\* C5: a Protection record without an open position is deleted by one guard
\* pass, and no reduce-only order for its (symbol, positionSide) is left
C5_OrphanCleanedInOnePass ==
    \A i \in 1..Len(passLog) :
        Undisturbed(passLog[i]) => passLog[i].left = {}

\* C6: with positions and Protection records unchanged, a second guard pass
\* places no order and leaves the set of protective orders as the first did
C6_SecondPassIdempotent ==
    TwoQuietPasses =>
        /\ passLog[2].placed = 0
        /\ passLog[2].ids = passLog[1].ids

\* C7: while a position opened through PlaceOrderFromSignal (from a signal
\* for which a Protection record was saved) is open, its Protection record
\* exists
C7_ProtectionWhileOpen ==
    \A k \in opened \cap savedFor :
        positions[k] > 0 => protection[k].set

OrderPlacedEvents(ids) ==
    {i \in 1..Len(tradeHistory) :
        tradeHistory[i].event = "order_placed" /\ tradeHistory[i].call \in ids}

\* C8: of two PlaceOrderFromSignal calls for one symbol that overlap, the
\* one that started second returns the lock-contended failure, they do not
\* both succeed, and at most one order_placed event is recorded for them
C8_ConcurrentCallsOneWinner ==
    \A p, q \in Procs :
        /\ p # q
        /\ pc[p] = "idle" /\ pc[q] = "idle"
        /\ last[p].op = "place" /\ last[q].op = "place"
        /\ last[p].id \in last[q].during
        => /\ last[q].result = "lock_contended"
           /\ ~(last[p].result = "ok" /\ last[q].result = "ok")
           /\ Cardinality(OrderPlacedEvents({last[p].id, last[q].id})) <= 1

\* C9 as claimed: of two identical signals less than windowSec apart (the
\* store answering both lookups) the second is always rejected as a duplicate
C9_Original ==
    \A a, b \in checks :
        /\ SameTuple(a, b)
        /\ a.id < b.id
        /\ a.ok
        /\ ~a.err /\ ~b.err
        /\ b.t - a.t < OrderDedupeWindow
        => ~b.ok

NothingBetween(a, b) ==
    ~\E c \in checks : SameTuple(a, c) /\ a.id < c.id /\ c.id < b.id

\* C9 amended: of two identical signals less than windowSec apart (no
\* identical one processed between them) the second can be rejected as a
\* duplicate only when both dedupe checks fall in the same window
\* floor(now/windowSec); when they straddle a window boundary the second is
\* accepted and does not return the duplicate failure
C9_SameWindowOnly ==
    \A a, b \in checks :
        /\ SameTuple(a, b)
        /\ a.id < b.id
        /\ a.ok
        /\ b.t - a.t < OrderDedupeWindow
        /\ NothingBetween(a, b)
        /\ a.t \div OrderDedupeWindow # b.t \div OrderDedupeWindow
        => /\ b.ok
           /\ \A p \in Procs : last[p].id = b.id => last[p].result # "duplicate"

\* 2 s apart across the boundary between windows 0 and 1, the store
\* answering both lookups, the first one's marker still stored: both accepted
C9_Witness ==
    \E a, b \in checks :
        /\ SameTuple(a, b) /\ a.id < b.id
        /\ a.t = 4 /\ b.t = 6
        /\ a.ok /\ b.ok
        /\ ~a.err /\ ~b.err
        /\ \E r \in dedupe : r.key = a.key

\* C10: identical signals at t and t + windowSec are in different windows
\* and the marker written for the first never rejects the second
C10_NextWindowAccepted ==
    \A a, b \in checks :
        /\ SameTuple(a, b)
        /\ a.ok
        /\ b.t = a.t + OrderDedupeWindow
        => /\ a.key # b.key
           /\ ~b.ok => \E c \in checks :
                          c.ok /\ c.id # a.id /\ c.id < b.id /\ c.key = b.key

\* both accepted while the first one's marker is still in the store
C10_Witness ==
    \E a, b \in checks :
        /\ SameTuple(a, b)
        /\ a.ok /\ b.ok
        /\ ~a.err /\ ~b.err
        /\ b.t = a.t + OrderDedupeWindow
        /\ \E r \in dedupe : r.key = a.key

InQueue(id) == {i \in DOMAIN tradeQueue : tradeQueue[i].id = id}

Pops(id) == {i \in DOMAIN popped : popped[i].id = id}

\* C11: every signal pushed onto trade_queue is either still queued or was
\* popped by the execution loop, exactly once in all: none is popped twice
\* and none leaves the queue without being popped
C11_ExactlyOnce ==
    \A id \in 1..pushed :
        Cardinality(InQueue(id)) + Cardinality(Pops(id)) = 1

\* C12: a PlaceOrderFromSignal whose confirmation saw CANCELED or REJECTED
\* does not return success, saves no Protection record and records no
\* order_placed event
C12_TerminalStatusFails ==
    \A p \in Procs :
        /\ last[p].op = "place"
        /\ last[p].confirm \in {"CANCELED", "REJECTED"}
        => /\ last[p].result # "ok"
           /\ <<last[p].sig.symbol, ToUpper(last[p].sig.side)>> \notin savedFor
           /\ OrderPlacedEvents({last[p].id}) = {}

\* C13: when the Protection has take_profit_2 = 0, the TP1 order the guard
\* places is for the whole position size, whatever tp1_ratio is, and the
\* stop-loss order is for the whole size as well
C13_FullSizeTP1WithoutTP2 ==
    \A i \in 1..Len(passLog) :
        \A r \in passLog[i].recon :
            r.outcome = "done" /\ r.tp2 = 0 =>
                /\ r.tp1Qty > 0 => r.tp1Qty = r.size
                /\ r.slQty > 0 => r.slQty = r.size

\* every run of the loop body, of finished passes and of the current one
AllRecon ==
    gl.recon \cup UNION {passLog[i].recon : i \in 1..Len(passLog)}

\* C14: with the ratio clamped to [0,1], amt1 + amt2 equals the position
\* size (to one quantity unit, 1e-8), and when the ratio gives amt1 <= 0 then
\* amt1 is the size, amt2 is 0 and no TP2 order is placed
C14_AmountsSumToSize ==
    \A r \in AllRecon :
        r.outcome = "done" =>
            /\ Abs(r.amt1 + r.amt2 - r.size) < 1
            /\ r.amt1 > 0 /\ r.amt2 >= 0
            /\ Round8(r.size * ClampRatio(r.ratio)) <= 0 =>
                  r.amt1 = r.size /\ r.amt2 = 0 /\ r.tp2Qty = 0

\* a finished pass over a position with a TP2 price whose ratio rounds amt1
\* to 0: TP1 was placed for the whole size and no TP2
C14_Witness ==
    /\ \E r \in AllRecon :
          /\ r.outcome = "done" /\ r.tp2 > 0
          /\ Round8(r.size * ClampRatio(r.ratio)) <= 0
          /\ r.tp1Qty = r.size /\ r.tp2Qty = 0
    /\ gpc = "idle"

\* C15: a pass that obtained the positions runs the loop body for every one
\* of them, whatever happened to the others
C15_EveryPositionReconciled ==
    \A i \in 1..Len(passLog) :
        ~passLog[i].posErr =>
            {r.k : r \in passLog[i].recon} =
                {k \in PosKeys : passLog[i].pos0[k] > 0}

\* the body failed for one position and the next one got its orders
C15_Witness ==
    \E i \in 1..Len(passLog) :
        \E a, b \in passLog[i].recon :
            /\ a.failed /\ a.seq < b.seq
            /\ b.outcome = "done" /\ ~b.failed
            /\ b.slQty = b.size /\ b.tp1Qty > 0

\* C16: for a symbol with a valid name, ScanSymbol returns an error exactly
\* when the 1m, 3m or 15m bars could not be fetched or came back empty;
\* otherwise it returns a MarketData, whatever the other fetches did
C16_ErrorIffCoreTimeframeMissing ==
    scanOut.returned /\ NormalizeSymbol(scanIn.symbol) # "" =>
        /\ scanOut.err # "" <=>
               \E i \in DOMAIN Timeframes :
                   /\ Timeframes[i] \in {"1m", "3m", "15m"}
                   /\ scanIn.ohlcv[i] # "ok"
        /\ scanOut.err = "" =>
               /\ scanOut.data.symbol = NormalizeSymbol(scanIn.symbol)
               /\ {"1m", "3m", "15m"} \subseteq scanOut.data.ohlcv

\* every fetch but the three core timeframes failed: a MarketData all the same
C16_Witness ==
    /\ scanOut.returned
    /\ scanOut.err = ""
    /\ scanOut.data.ohlcv = {"1m", "3m", "15m"}
    /\ scanIn.ticker = "err" /\ scanIn.funding = "err"
    /\ scanIn.openInterest = "err"

\* C17: when the scan is cancelled and the result channel is closed, every
\* task that was started has finished, and no task has sent on the closed
\* channel
C17_TasksJoinedBeforeClose ==
    ctxDone /\ resultChan.closed =>
        /\ \A t \in Tasks : ~Running(t)
        /\ ~panicked

C19_BoundedInFlight ==
    Cardinality({t \in Tasks : task[t] = "scanning"}) <= streamCfg.conc

\* the pool is larger than scan_concurrency: as many calls in flight as
\* allowed, and a task waiting for a slot
C19_Witness ==
    /\ streamCfg.pool > streamCfg.conc
    /\ Cardinality({t \in Tasks : task[t] = "scanning"}) = streamCfg.conc
    /\ \E t \in Tasks : task[t] = "sem"

\* C20: a scan is requested with force_full = true exactly when the cycle
\* completed before it ran with ai_force_full_pool_when_no_action enabled,
\* had no signal enqueued by its workers and scanned at most ai_batch_size
\* items; the first scan is requested with force_full = false
C20_ForceFullPolicy ==
    \A i \in 1..Len(requests) :
        LET r == requests[i]
        IN  IF r.after = 0
            THEN ~r.forceFull
            ELSE r.forceFull <=>
                   /\ cycleCfg.forceFull
                   /\ cycles[r.after].enqueued = 0
                   /\ cycles[r.after].scannedOK <= cycleCfg.batch

\* the flag enabled, a cycle that scanned exactly ai_batch_size = 2 items and
\* enqueued nothing, and the next scan requested with force_full = true
C20_Witness ==
    \E i \in 1..Len(requests) :
        /\ requests[i].after > 0
        /\ requests[i].forceFull
        /\ cycleCfg.batch = 2
        /\ cycles[requests[i].after].scannedOK = 2
        /\ cycles[requests[i].after].enqueued = 0

\* C21: once a 429 or 418 has opened a backoff window (the Retry-After value,
\* or the exponential wait), a FetchJSON call that starts inside the window
\* sends its request only after the window has ended
C21_BlockedUntilWindowEnds ==
    \A r \in sent : r.caller \in PublicCallers => ~r.early

\* C22: every request handed to the transport, public or signed, was sent by
\* a call that had waited out the backoff window and drawn a limiter token
C22_EveryCallWaitsAndDrawsToken ==
    \A r \in sent : r.waited /\ r.token

\* C23: the token count stays within [0, capacity]; Acquire(n) succeeds
\* exactly when the refilled bucket holds n tokens, then removes exactly n,
\* and removes nothing when it fails
C23_TokenBucket ==
    /\ 0 <= limiter.tokens
    /\ limiter.tokens <= limiter.capacity
    /\ lastAcq # NoAcq =>
          LET refilled == Min(limiter.capacity,
                              lastAcq.before + lastAcq.elapsed * limiter.rate)
              want == lastAcq.n * TicksPerSec
          IN  /\ lastAcq.ok <=> refilled >= want
              /\ limiter.tokens = IF lastAcq.ok THEN refilled - want ELSE refilled

\* an Acquire that failed on a partly refilled bucket, after one that succeeded
C23_Witness ==
    /\ lastAcq # NoAcq
    /\ ~lastAcq.ok
    /\ lastAcq.elapsed > 0
    /\ 0 < limiter.tokens
    /\ limiter.tokens < limiter.capacity

C25_PanickedTaskRestarted ==
    \A t \in Services :
        [](svc[t].pc = "recovered" => <>(svc[t].pc # "recovered" \/ sup.cancelled))

\* C26: the execution loop pops the signals in the order in which they were
\* pushed, so in particular those of one symbol in their order of emission
C26_QueueIsFIFO ==
    \A i, j \in DOMAIN popped : i < j => popped[i].id < popped[j].id

\* two signals of one symbol were popped, the second pushed while the first
\* was still queued
C26_Witness ==
    \E i, j \in DOMAIN popped :
        /\ i < j
        /\ emitted[popped[i].id].symbol = emitted[popped[j].id].symbol
        /\ maxQueueSize = 2
        /\ Len(tradeQueue) = 2

\* C27: none of signal_history, trade_queue, order_audit and trade_history
\* holds more entries than its maximum (the configured value, or the
\* built-in default when the configured value is not positive)
C27_ListsBounded ==
    /\ Len(signalHistory) <= SignalHistoryMaxLen
    /\ Len(tradeQueue) <= (IF maxQueueSize <= 0 THEN DefaultMaxTradeQueueSize
                           ELSE maxQueueSize)
    /\ Len(audit) <= OrderAuditMaxLen
    /\ Len(tradeHistory) <= TradeHistoryMaxLen

\* all four lists are full and signal_history has dropped an entry
C27_Witness ==
    /\ Len(signalHistory) = SignalHistoryMaxLen
    /\ Len(emitted) > SignalHistoryMaxLen
    /\ maxQueueSize > 0
    /\ Len(tradeQueue) = maxQueueSize
    /\ Len(audit) = OrderAuditMaxLen
    /\ Len(tradeHistory) = TradeHistoryMaxLen

\* C28: no two emitted signals have the same signal id, and of two signals
\* of one symbol the later one has the greater id (as strings)
C28_SignalIdsUniqueAndIncreasing ==
    \A i, j \in DOMAIN emitted :
        i < j =>
            /\ emitted[i].signalId # emitted[j].signalId
            /\ emitted[i].symbol = emitted[j].symbol =>
                  StrLess(emitted[i].signalId.tail, emitted[j].signalId.tail)

\* two signals of one symbol, and between them a signal of another symbol
\* emitted at the same clock reading as the first
C28_Witness ==
    \E i, j, k \in DOMAIN emitted :
        /\ i < k /\ k < j
        /\ emitted[i].symbol = emitted[j].symbol
        /\ emitted[k].symbol # emitted[i].symbol
        /\ emitted[k].signalId.tail = emitted[i].signalId.tail

\* C29: with DRY_RUN on, no order or cancellation request reaches the venue;
\* PlaceOrder returns an order with status NEW and id dry_run_<nanoseconds of
\* the clock>, CancelOrder returns true, GetPositions and GetOpenOrders
\* return empty lists, all without error
C29_DryRunWritesNothing ==
    exCfg.dryRun =>
        /\ \A i \in DOMAIN venue : venue[i].method \notin {"POST", "DELETE"}
        /\ \A i \in DOMAIN replies :
             LET op == replies[i].op
                 r == replies[i].reply
             IN  /\ op \in {"PlaceOrder", "CancelOrder", "GetPositions",
                             "GetOpenOrders"} => ~r.err
                 /\ op = "PlaceOrder" =>
                       /\ r.order.status = "NEW"
                       /\ r.order.id.prefix = "dry_run_"
                       /\ \E n \in NanoEpoch..exNano :
                             r.order.id.digits = Digits(n)
                 /\ op = "CancelOrder" => r.ok
                 /\ op \in {"GetPositions", "GetOpenOrders"} => r.list = <<>>

\* with DRY_RUN on, each of the four methods has been called
C29_Witness ==
    /\ exCfg.dryRun
    /\ \A op \in {"PlaceOrder", "CancelOrder", "GetPositions",
                    "GetOpenOrders"} :
         \E i \in DOMAIN replies : replies[i].op = op

\* C30 as stated: CalculateEMA returns 0 exactly when there are fewer prices
\* than the period
C30_Original ==
    emaOut # NoResult =>
        ((emaOut.kind = "value" /\ emaOut.num = 0)
            <=> Len(emaIn.prices) < emaIn.period)

\* C30: CalculateEMA returns 0 whenever there are fewer prices than the
\* period; for a period of at least 1 and prices that are all positive it
\* returns 0 only then
C30_ZeroIffShortForPositivePrices ==
    emaOut # NoResult =>
        /\ Len(emaIn.prices) < emaIn.period
              => emaOut.kind = "value" /\ emaOut.num = 0
        /\ (/\ emaIn.period >= 1
            /\ \A i \in DOMAIN emaIn.prices : emaIn.prices[i] > 0)
              => ((emaOut.kind = "value" /\ emaOut.num = 0)
                     <=> Len(emaIn.prices) < emaIn.period)

\* positive prices, more of them than the period: the loop has run and the
\* result is a positive value
C30_Witness ==
    /\ emaOut.kind = "value"
    /\ emaOut.num > 0
    /\ emaIn.period >= 1
    /\ Len(emaIn.prices) > emaIn.period
    /\ \A i \in DOMAIN emaIn.prices : emaIn.prices[i] > 0

C32_ThreeAttemptsThenWait ==
    \A i \in DOMAIN psLog :
        LET in == psLog[i].in
            out == psLog[i].out
            oks == {k \in 1..MaxRetries : in.results[k] = "ok"}
        IN  (in.mode = "ai" /\ in.trader = "ok" /\ in.fmtOk) =>
              /\ out.md.calls <= 3
              /\ oks # {} => \A k \in oks : out.md.calls <= k
              /\ oks = {} =>
                    /\ out.md.calls = 3
                    /\ out.md.kind = "returned"
                    /\ out.md.action = "wait"
                    /\ ~out.md.errNil
                    /\ ~out.push

\* C33: ProcessSignal enqueues a signal only for one of the four trade
\* actions with a signal; hold, wait and advisor actions outside the allowed
\* set enqueue nothing, and what is enqueued is that one signal
C33_OnlyTradeActionsEnqueue ==
    /\ \A i \in DOMAIN psLog :
         LET in == psLog[i].in
             out == psLog[i].out
             ai == in.mode = "ai" /\ in.trader # "none"
             decided == IF ai THEN TrimLower(in.content.action)
                        ELSE in.rule.action
             hasSignal == IF ai THEN TRUE ELSE in.rule.signal
         IN  /\ out.push =>
                   /\ decided \in {"open_long", "open_short", "close_long",
                                    "close_short"}
                   /\ hasSignal
                   /\ out.ret = "true"
             /\ (ai /\ out.md.kind = "returned" /\ out.md.errNil
                 /\ out.md.calls > 0
                 /\ decided \notin {"open_long", "open_short", "close_long",
                                     "close_short", "hold", "wait"}) =>
                   out.md.action = "wait"
             /\ decided \in {"hold", "wait"} => ~out.push
    /\ Len(emitted) = Cardinality({i \in DOMAIN psLog : psLog[i].out.push})
    /\ \A j \in DOMAIN emitted :
         emitted[j].action \in {"open_long", "open_short", "close_long",
                                "close_short"}

\* one market data whose advisor action "buy" was coerced to wait and not
\* enqueued, another whose trade action was enqueued
C33_Witness ==
    /\ \E i \in DOMAIN psLog :
         /\ psLog[i].in.content.action = "buy"
         /\ psLog[i].out.md.action = "wait"
         /\ psLog[i].out.md.calls > 0
         /\ ~psLog[i].out.push
    /\ \E i \in DOMAIN psLog :
         /\ psLog[i].out.push
         /\ psLog[i].in.content.action = " CLOSE_SHORT "

\* C34: a PlaceOrderFromSignal call that fails on the lock or on the dedupe
\* check is over in that step: it places no order, appends nothing to the
\* audit list or the trade history, writes no Protection record and makes no
\* second attempt
C34_FailedPreconditionLeavesNoTrace ==
    [][\A p \in Procs :
         (/\ last'[p] # last[p]
          /\ last'[p].op = "place"
          /\ last'[p].result \in {"lock_contended", "duplicate"}) =>
             /\ pc[p] = "idle" /\ pc'[p] = "idle"
             /\ calls' = calls + 1
             /\ orders' = orders /\ nextOrder' = nextOrder
             /\ audit' = audit
             /\ tradeHistory' = tradeHistory
             /\ protection' = protection
             /\ positions' = positions]_vars

\* a call has failed on the dedupe check after an earlier call of the same
\* signal got past it and left its audit events
C34_Witness ==
    \E q \in Procs :
        /\ last[q].op = "place" /\ last[q].result = "duplicate"
        /\ Len(audit) >= 1

\* C35: a successful ClosePositionFromAction leaves the position flat: its
\* order is for the size the position has when the order is placed
C35_Original ==
    [][\A p \in Procs :
         (/\ pc[p] = "c_placing"
          /\ last'[p] # last[p] /\ last'[p].result = "ok") =>
             positions'[<<cur[p].sig.symbol, cur[p].posSide>>] = 0]_vars

CloseSide(action) == IF action = "close_long" THEN "LONG" ELSE "SHORT"

\* C35: ClosePositionFromAction returns a failure at once, with no order, no
\* lock and no event, when the side it is to close is flat; while it is at the
\* order it holds the lock of the symbol under its own token and has the
\* size GetPosition answered before the lock, positive and of the side to
\* close; its one order is MARKET, reduce-only, for that size, executes
\* against what the position then is, and a failed order changes no position
C35_ClosesFetchedSizeUnderLock ==
    [][\A p \in Procs :
         /\ (/\ pc[p] = "idle"
             /\ \/ pc'[p] = "c_placing"
                \/ last'[p] # last[p] /\ last'[p].op = "close") =>
                LET sg == IF pc'[p] = "c_placing" THEN cur'[p].sig ELSE last'[p].sig
                    k == <<sg.symbol, CloseSide(sg.action)>>
                IN  /\ positions[k] = 0 =>
                          /\ pc'[p] = "idle"
                          /\ last'[p].result \in
                                {"position_error", "no_position", "side_mismatch"}
                    /\ pc'[p] = "idle" => locks' = locks
                    /\ pc'[p] = "c_placing" =>
                          /\ cur'[p].size = positions[k]
                          /\ cur'[p].posSide = k[2]
                    /\ orders' = orders /\ nextOrder' = nextOrder
                    /\ positions' = positions
                    /\ audit' = audit /\ tradeHistory' = tradeHistory
         /\ pc[p] = "c_placing" =>
                LET c == cur[p]
                    k == <<c.sig.symbol, c.posSide>>
                    key == ExecLockKey(c.sig.symbol)
                    req == CloseOrderRequest(c)
                IN  /\ locks[key] # NoLock /\ locks[key].token = c.token
                    /\ c.size > 0 /\ c.posSide = CloseSide(c.sig.action)
                    /\ req.orderType = "MARKET" /\ req.reduceOnly
                    /\ req.positionSide = c.posSide
                    /\ req.side = IF c.posSide = "LONG" THEN "SELL" ELSE "BUY"
                    /\ (last'[p] # last[p] /\ last'[p].result = "ok") =>
                          /\ nextOrder' = nextOrder + 1
                          /\ positions[k] >= c.size =>
                                positions' = [positions EXCEPT ![k] = @ - c.size]
                          /\ positions[k] < c.size =>
                                positions' = [positions EXCEPT ![k] = 0]
                          /\ Len(tradeHistory') >= 1
                          /\ tradeHistory'[1].event = "position_closed"
                          /\ tradeHistory'[1].call = c.id
                          /\ locks'[key] = NoLock
                    /\ (last'[p] # last[p] /\ last'[p].result # "ok") =>
                          /\ last'[p].result = "close_failed"
                          /\ nextOrder' = nextOrder
                          /\ positions' = positions
                          /\ locks'[key] = NoLock]_vars

\* a close call holds the lock and is at its order, and a resting order has
\* filled since its GetPosition: the position is larger than the size it has
C35_Witness ==
    \E q \in Procs :
        /\ pc[q] = "c_placing"
        /\ cur[q].size < positions[<<cur[q].sig.symbol, cur[q].posSide>>]

\* C36: every event stored in the order_audit list has at most
\* order_audit_event_max_chars characters, the suffix of a truncated event
\* included
C36_StoredEventWithinLimit ==
    \A i \in 1..Len(auditTexts) :
        RuneCount(auditTexts[i]) <= EffectiveMaxChars(auditCfg)

\* C37: a GetSymbolPool call that reads the volatility pool while
\* UpdateVolatilityPool is replacing it sees the whole previous set or the
\* whole new set
C37_ReaderSeesOldOrNew ==
    \A i \in 1..Len(poolReads) :
        LET r == poolReads[i]
        IN  (r.writing /\ ~r.forceFull /\ ~r.redisErr) =>
                r.seen \in {r.prev, r.new}

\* a stop-loss order rests on the exchange for the position
HasStopLoss(k) == \E o \in ProtectiveOrders(k) : isStopLossOrder(o)

\* a guard pass was cut short by an error of the exchange or the store
PassFailed ==
    \E i \in 1..Len(passLog) : passLog[i].posErr \/ ~passLog[i].clean

\* the position of a returned PlaceOrderFromSignal call whose signal had a stop
\* loss is open, and the guard has a pass to come
OpenedWithStopLoss(k) ==
    /\ positions[k] > 0
    /\ \E p \in Procs :
         /\ last[p].op = "place" /\ last[p].result = "ok"
         /\ last[p].sig.sl > 0
         /\ k = <<last[p].sig.symbol, ToUpper(last[p].sig.side)>>
    /\ gpc = "idle"
    /\ Len(passLog) < MaxPasses

\* C38: a position opened through PlaceOrderFromSignal from a signal with a
\* stop loss gets a stop-loss order from the guard in the end, with or without
\* a take profit in the signal, unless a guard pass fails on an error
C38_StopLossEventuallyPlaced ==
    \A k \in PosKeys :
        OpenedWithStopLoss(k) ~> (HasStopLoss(k) \/ PassFailed)

\* C39: when PlaceOrderFromSignal or ClosePositionFromAction returns after
\* having taken the execution lock of the symbol, the key is free or belongs
\* to another call: it is not left under the token of the finished call
C39_LockNotHeldAfterReturn ==
    [][\A p \in Procs :
         (pc[p] \in LockedPcs /\ pc'[p] = "idle") =>
            LET key == ExecLockKey(cur[p].sig.symbol)
            IN  \/ locks'[key] = NoLock
                \/ locks'[key].token # cur[p].token]_vars

\* C40: a step of the guard's cleanup deletes a Protection record, or cancels
\* a reduce-only order, only of a position that is flat when the step is taken
C40_CleanupOnlyWhenFlat ==
    [][gpc = "cleanup" =>
         /\ \A k \in PosKeys :
               (protection[k].set /\ ~protection'[k].set) => positions[k] = 0
         /\ \A o \in orders \ orders' :
               o.reduceOnly => positions[<<o.symbol, o.positionSide>>] = 0]_vars

====
